---- MODULE Spec2Model ----
(***************************************************************************)
(* State-machine model of the opensay backend.                             *)
(*                                                                         *)
(*   Spec         capture engine (adapters/audio_cpal.rs) driven by the    *)
(*                controller's toggle flow (app/controller.rs)             *)
(*   SpecNet      privacy guard (adapters/privacy_guard.rs) and model      *)
(*                installer (adapters/model_manager.rs)                    *)
(*   SpecUrl      the URL gate is_url_allowed over all policies and URLs   *)
(*   SpecModels   the model manager with delete, verify and the scan       *)
(*   SpecLost     the capture engine after a device loss, with recover     *)
(*   SpecHw       the hardware detector under concurrent calls             *)
(*   SpecDev      the device list over the hosts' enumerations             *)
(*   SpecSelect   selecting an input device and starting on it             *)
(*   SpecRecommend  the model recommendation over machines and catalogs    *)
(*   SpecTranscriber  the transcriber called directly                      *)
(*   SpecConfig   configuration updates (app/controller.rs)                *)
(*                                                                         *)
(* Every shared atomic (the audio state byte, toggle_in_progress) is read  *)
(* and written in steps of its own, so that the interleavings of the       *)
(* capture thread, the native stream callbacks and the async callers are   *)
(* those of the code.  Steps that touch only thread-local data are merged  *)
(* into the neighbouring step.                                             *)
(***************************************************************************)
EXTENDS Integers, Sequences, FiniteSets, TLC

(***************************************************************************)
(* Bounds of the model.                                                    *)
(***************************************************************************)
\* concurrent callers of the IPC commands (tauri runs them on a thread pool)
NumCallers == 2
\* calls issued in one behaviour, all callers together
MaxCalls == 2
\* device errors reported by the native layer in one behaviour
MaxDeviceErrors == 1
\* resampled samples the input callback produces in one behaviour
MaxProduced == 3
\* AudioConfig.buffer_duration_secs * sample_rate, scaled down
RingCapacity == 2
\* concurrent requests through the privacy guard (the policy setters run
\* beside them)
NumRequests == 1
\* entries of the installed list
MaxInstalled == 2
\* chunks of a downloaded body
NumChunks == 2
\* longest host of a URL, in characters
MaxHostLen == 3
\* longest allowlisted domain, in characters
MaxDomainLen == 2
\* longest allow list
MaxDomains == 2
\* most input devices of the host
MaxDevices == 3
\* RAM sizes up to this many GiB are detected
MaxRamGb == 9

(***************************************************************************)
(* Program constants.                                                      *)
(***************************************************************************)
\* AudioConfig::default().max_recovery_attempts
max_recovery_attempts == 3

Callers == 1..NumCallers

AudioStates == {"Idle", "Recording", "DeviceLost", "Recovering", "Error"}

\* an id that is no caller's
NoCaller == NumCallers + 1

VARIABLES
    \* ---- capture engine, shared ----
    state,              \* AtomicAudioState
    emitted,            \* AudioEvents sent on event_sender by the last step
    cmd_queue,          \* mpsc channel cmd_tx -> cmd_rx
    reply,              \* oneshot reply slot of each caller's pending command
    recording_start,    \* Mutex<Option<Instant>>: TRUE when Some
    \* ---- capture thread (audio_thread_main) ----
    audio_pc,           \* position of the capture thread
    audio_cmd,          \* caller whose command is being handled
    audio_from,         \* the local `from`
    stream,             \* Option<Stream>: TRUE when Some
    ring_consumer,      \* Option<RingConsumer>: TRUE when Some
    ring,               \* contents of the ring of the current stream
    stop_samples,       \* the local `samples` of the Stop handler
    \* ---- native stream callbacks ----
    errcb_pc,           \* handle_stream_error: "idle" or "store"
    n_errors,           \* device errors reported so far
    n_produced,         \* samples produced by the input callback so far
    current_level,      \* AtomicU32 of the level meter: 0, or 1 for any level above 0
    \* ---- transcriber ----
    context,            \* RwLock<Option<WhisperContext>>: TRUE when Some
    \* ---- controller and callers ----
    toggle_in_progress, \* AtomicBool
    pc,                 \* position of each caller
    op,                 \* the command each caller is running
    local,              \* locals of each caller's call
    returned,           \* the call that returned in the last step, and its value
    n_calls,            \* calls issued so far
    \* ---- PrivacyGuard ----
    local_only,         \* AtomicBool
    allowed_domains,    \* RwLock<Vec<String>>
    \* ---- filesystem and LocalModelManager ----
    disk,               \* the files of the models directory
    installed,          \* RwLock<Vec<InstalledModel>>
    \* ---- requests through the guard ----
    net_pc,             \* position of each request
    net_op,             \* the call each request is running, with its arguments
    net_local,          \* locals of each request's call
    net_returned,       \* the guard call that returned in the last step
    \* ---- the audio host (cpal) ----
    host_devices,       \* host.input_devices(), in enumeration order
    host_default,       \* the name of host.default_input_device(), an Option
    listed,             \* what the last list_input_devices() returned
    selected_device_id, \* RwLock<Option<String>>
    opened,             \* the device the last successful Start opened
    sel_returned,       \* the select_input_device call that returned last
    \* ---- CpuHardwareDetector ----
    profile,            \* OnceLock<HardwareProfile>
    hw_pc,              \* position of each thread's detect() or profile() call
    hw_op,              \* the call each thread is running
    hw_local,           \* the local `profile` of each call
    hw_returned,        \* the detector call that returned in the last step
    hardware,           \* what detect_hardware reads on this machine
    rec_returned,       \* the recommend_model call that returned in the last step
    \* ---- WhisperCppTranscriber, called directly ----
    context_model,      \* the model file the context was loaded from
    tr_returned,        \* the transcriber call that returned in the last step
    \* ---- AppController and TomlConfigStore: the privacy section ----
    config,             \* RwLock<AppConfig>, what config() returns
    config_file,        \* config.toml in the data directory
    cfg_pc,             \* position of the update_config call
    cfg_local,          \* the argument `config` of the call
    cfg_returned,       \* the update_config call that returned in the last step
    \* ---- the owner of the capture engine ----
    drop_pc             \* Drop for CpalAudioManager: "alive", "join" or "done"

audioVars == <<state, emitted, cmd_queue, reply, recording_start, audio_pc,
               audio_cmd, audio_from, stream, ring_consumer, ring, stop_samples,
               errcb_pc, n_errors, n_produced, current_level, context,
               toggle_in_progress,
               pc, op, local, returned, n_calls>>

netVars == <<local_only, allowed_domains, disk, installed, net_pc, net_op,
             net_local, net_returned>>

hwVars == <<profile, hw_pc, hw_op, hw_local, hw_returned>>

recVars == <<hardware, rec_returned>>

trVars == <<context_model, tr_returned>>

selVars == <<selected_device_id, opened, sel_returned>>

cfgVars == <<config, config_file, cfg_pc, cfg_local, cfg_returned>>

sideVars == <<recVars, trVars, selVars, cfgVars>>

hostVars == <<host_devices, host_default, listed, hwVars, sideVars>>

ownerVars == <<drop_pc>>

vars == <<audioVars, netVars, hostVars, ownerVars>>

(***************************************************************************)
(* domain/audio.rs                                                         *)
(***************************************************************************)
\* a faulty variant: everything but Recording may start
can_start_recording_bug(s) == s # "Recording"

\* AudioState::can_start_recording
can_start_recording(s) == s = "Idle"

\* a faulty variant: everything but Idle may stop
can_stop_recording_bug(s) == s # "Idle"

\* AudioState::can_stop_recording
can_stop_recording(s) == s = "Recording"

\* a faulty variant: everything but Idle may recover
can_recover_bug(s) == s # "Idle"

\* AudioState::can_recover
can_recover(s) == s \in {"DeviceLost", "Error"}

StateChanged(from, to) == [type |-> "StateChanged", from |-> from, to |-> to]

DeviceLostEvent == [type |-> "DeviceLost"]

RecoverySuccess == [type |-> "RecoverySuccess"]

RecoveryFailed(n) == [type |-> "RecoveryFailed", attempts |-> n]

(***************************************************************************)
(* Results of calls.                                                       *)
(***************************************************************************)
Ok(v) == [ok |-> TRUE, value |-> v]

Err(e) == [ok |-> FALSE, error |-> e]

NoResult == [ok |-> FALSE, error |-> "none"]

NoLocal == [current |-> "Idle", attempt |-> 0, waited |-> 0, probes |-> 0,
            buffer |-> <<>>, owns |-> FALSE, freed |-> <<>>, text |-> "",
            ret |-> NoResult]

NoReply == [ok |-> FALSE, error |-> "pending"]

NoReturn == [caller |-> NoCaller, op |-> "none", ret |-> NoResult]

(***************************************************************************)
(* Initial state: AppController::new / CpalAudioManager::with_config /      *)
(* WhisperCppTranscriber::new.                                              *)
(***************************************************************************)
AudioInit ==
    /\ state = "Idle"
    /\ emitted = <<>>
    /\ cmd_queue = <<>>
    /\ reply = [c \in Callers |-> NoReply]
    /\ recording_start = FALSE
    /\ audio_pc = "recv"
    /\ audio_cmd = NoCaller
    /\ audio_from = "Idle"
    /\ stream = FALSE
    /\ ring_consumer = FALSE
    /\ ring = <<>>
    /\ stop_samples = <<>>
    /\ errcb_pc = "idle"
    /\ n_errors = 0
    /\ n_produced = 0
    /\ current_level = 0
    /\ context = FALSE
    /\ toggle_in_progress = FALSE
    /\ pc = [c \in Callers |-> "idle"]
    /\ op = [c \in Callers |-> "none"]
    /\ local = [c \in Callers |-> NoLocal]
    /\ returned = NoReturn
    /\ n_calls = 0
    /\ drop_pc = "alive"

\* variables of the capture thread and of the callbacks
threadVars == <<audio_pc, audio_cmd, audio_from, stream, ring_consumer, ring,
                stop_samples, errcb_pc, n_errors, n_produced, current_level>>

\* a caller issues a new call, on an engine it borrows: one not being dropped
Begin(c) ==
    /\ drop_pc = "alive"
    /\ pc[c] = "idle"
    /\ n_calls < MaxCalls
    /\ n_calls' = n_calls + 1

\* cmd_tx.send(cmd).await with a fresh oneshot reply slot
SendCmd(c, cmd) ==
    /\ cmd_queue' = Append(cmd_queue, [cmd |-> cmd, caller |-> c])
    /\ reply' = [reply EXCEPT ![c] = NoReply]

\* the call of caller c returns r
Return(c, o, r) ==
    /\ returned' = [caller |-> c, op |-> o, ret |-> r]
    /\ pc' = [pc EXCEPT ![c] = "idle"]
    /\ op' = [op EXCEPT ![c] = "none"]
    /\ local' = [local EXCEPT ![c] = NoLocal]

\* a step of caller c that goes on to position `next` of its call
Goto(c, next) ==
    /\ returned' = NoReturn
    /\ pc' = [pc EXCEPT ![c] = next]

(***************************************************************************)
(* AppController::toggle_recording                                          *)
(***************************************************************************)
\* a faulty variant: a plain store that always succeeds
compare_exchange_bug(cur, expected, new) == <<TRUE, new>>

\* AtomicBool::compare_exchange(expected, new): <<succeeded, value after>>
compare_exchange(cur, expected, new) ==
    IF cur = expected THEN <<TRUE, new>> ELSE <<FALSE, cur>>

ToggleEnter(c) ==
    /\ Begin(c)
    /\ LET cas == compare_exchange(toggle_in_progress, FALSE, TRUE) IN
       /\ toggle_in_progress' = cas[2]
       /\ IF cas[1]
          THEN /\ Goto(c, "t_dispatch")
               /\ op' = [op EXCEPT ![c] = "toggle"]
               /\ UNCHANGED local
          ELSE Return(c, "toggle", Err("Toggle already in progress"))
    /\ emitted' = <<>>
    /\ UNCHANGED <<state, cmd_queue, reply, recording_start, threadVars, context>>
    /\ UNCHANGED <<netVars, hostVars, ownerVars>>

\* a faulty variant: only Recording is told from the rest, which all start
ToggleDispatchStartsElse(c) ==
    /\ pc[c] = "t_dispatch"
    /\ IF state = "Recording"
       THEN Goto(c, "stop_send")
       ELSE Goto(c, "start_send")
    /\ emitted' = <<>>
    /\ UNCHANGED <<state, cmd_queue, reply, recording_start, threadVars, context,
                   toggle_in_progress, op, local, n_calls>>
    /\ UNCHANGED <<netVars, hostVars, ownerVars>>

\* toggle_recording_inner: match self.audio_state()
ToggleDispatch(c) ==
    /\ pc[c] = "t_dispatch"
    /\ CASE state = "Idle" ->
              /\ Goto(c, "start_send")
              /\ UNCHANGED local
         [] state = "Recording" ->
              /\ Goto(c, "stop_send")
              /\ UNCHANGED local
         [] state \in {"DeviceLost", "Recovering"} ->
              /\ Goto(c, "t_reset")
              /\ local' = [local EXCEPT ![c].ret = Err("Audio device unavailable")]
         [] state = "Error" ->
              /\ Goto(c, "t_reset")
              /\ local' = [local EXCEPT ![c].ret = Err("Audio is in error state")]
    /\ emitted' = <<>>
    /\ UNCHANGED <<state, cmd_queue, reply, recording_start, threadVars, context,
                   toggle_in_progress, op, n_calls>>
    /\ UNCHANGED <<netVars, hostVars, ownerVars>>

\* a faulty variant: the flag is reset on success only
ToggleResetOnlyOnOk(c) ==
    /\ pc[c] = "t_reset"
    /\ toggle_in_progress' = IF local[c].ret.ok THEN FALSE ELSE toggle_in_progress
    /\ Return(c, "toggle", local[c].ret)
    /\ emitted' = <<>>
    /\ UNCHANGED <<state, cmd_queue, reply, recording_start, threadVars, context,
                   n_calls>>
    /\ UNCHANGED <<netVars, hostVars, ownerVars>>

\* toggle_recording: store(false) after toggle_recording_inner has returned
ToggleReset(c) ==
    /\ pc[c] = "t_reset"
    /\ toggle_in_progress' = FALSE
    /\ Return(c, "toggle", local[c].ret)
    /\ emitted' = <<>>
    /\ UNCHANGED <<state, cmd_queue, reply, recording_start, threadVars, context,
                   n_calls>>
    /\ UNCHANGED <<netVars, hostVars, ownerVars>>

(***************************************************************************)
(* CpalAudioManager::start_recording / stop_recording (the async facade)    *)
(***************************************************************************)
\* the facade returns ret: to toggle_recording_inner, which returns `inner`
\* at once, or to the IPC caller
FacadeReturn(c, ret, inner) ==
    IF op[c] = "toggle"
    THEN /\ Goto(c, "t_reset")
         /\ local' = [local EXCEPT ![c].ret = inner]
         /\ UNCHANGED op
    ELSE Return(c, op[c], ret)

CallStart(c) ==
    /\ Begin(c)
    /\ SendCmd(c, "Start")
    /\ Goto(c, "start_wait")
    /\ op' = [op EXCEPT ![c] = "start"]
    /\ emitted' = <<>>
    /\ UNCHANGED <<state, recording_start, threadVars, context, toggle_in_progress,
                   local>>
    /\ UNCHANGED <<netVars, hostVars, ownerVars>>

ToggleStartSend(c) ==
    /\ pc[c] = "start_send"
    /\ SendCmd(c, "Start")
    /\ Goto(c, "start_wait")
    /\ emitted' = <<>>
    /\ UNCHANGED <<state, recording_start, threadVars, context, toggle_in_progress,
                   op, local, n_calls>>
    /\ UNCHANGED <<netVars, hostVars, ownerVars>>

\* reply_rx.await??; *recording_start = Some(now)
StartReply(c) ==
    /\ pc[c] = "start_wait"
    /\ reply[c] # NoReply
    /\ IF reply[c].ok
       THEN /\ recording_start' = TRUE
            /\ FacadeReturn(c, Ok("unit"), Ok("Started"))
       ELSE /\ UNCHANGED recording_start
            /\ FacadeReturn(c, reply[c], reply[c])
    /\ reply' = [reply EXCEPT ![c] = NoReply]
    /\ emitted' = <<>>
    /\ UNCHANGED <<state, cmd_queue, threadVars, context, toggle_in_progress,
                   n_calls>>
    /\ UNCHANGED <<netVars, hostVars, ownerVars>>

CallStop(c) ==
    /\ Begin(c)
    /\ SendCmd(c, "Stop")
    /\ Goto(c, "stop_wait")
    /\ op' = [op EXCEPT ![c] = "stop"]
    /\ emitted' = <<>>
    /\ UNCHANGED <<state, recording_start, threadVars, context, toggle_in_progress,
                   local>>
    /\ UNCHANGED <<netVars, hostVars, ownerVars>>

ToggleStopSend(c) ==
    /\ pc[c] = "stop_send"
    /\ SendCmd(c, "Stop")
    /\ Goto(c, "stop_wait")
    /\ emitted' = <<>>
    /\ UNCHANGED <<state, recording_start, threadVars, context, toggle_in_progress,
                   op, local, n_calls>>
    /\ UNCHANGED <<netVars, hostVars, ownerVars>>

\* reply_rx.await??; recording_start.take(); the samples become an AudioBuffer
StopReply(c) ==
    /\ pc[c] = "stop_wait"
    /\ reply[c] # NoReply
    /\ IF reply[c].ok
       THEN /\ recording_start' = FALSE
            /\ IF op[c] = "toggle"
               THEN /\ Goto(c, "t_transcribe")
                    /\ local' = [local EXCEPT ![c].buffer = reply[c].value,
                                              ![c].owns = TRUE]
                    /\ UNCHANGED op
               ELSE Return(c, "stop", reply[c])
       ELSE /\ UNCHANGED recording_start
            /\ FacadeReturn(c, reply[c], reply[c])
    /\ reply' = [reply EXCEPT ![c] = NoReply]
    /\ emitted' = <<>>
    /\ UNCHANGED <<state, cmd_queue, threadVars, context, toggle_in_progress,
                   n_calls>>
    /\ UNCHANGED <<netVars, hostVars, ownerVars>>

\* CpalAudioManager::current_duration: the time since recording_start was set
\* when it is Some, 0.0 when it is None
current_duration == IF recording_start THEN "elapsed" ELSE "zero"

(***************************************************************************)
(* toggle_recording_inner, Recording branch: transcribe, then inject.       *)
(***************************************************************************)
\* Zeroize for Vec<i16>: every sample of the storage is overwritten with 0
zeroize_skipped(samples) == samples

zeroize(samples) == [i \in 1..Len(samples) |-> 0]

\* the AudioBuffer `buffer` of the call with locals l goes out of scope:
\* #[zeroize(drop)] zeroes the storage, which is then released
drop_buffer(l) ==
    [l EXCEPT !.buffer = <<>>, !.owns = FALSE, !.freed = zeroize(l.buffer)]

\* WhisperCppTranscriber::transcribe on a 16 kHz buffer.  `backend` is what the
\* inference library would answer: an error, or the text of the segments.
\* a faulty variant: the empty buffer is answered before the model is looked for
transcribe_empty_first(ctx, buffer, backend) ==
    IF buffer = <<>> THEN Ok("")
    ELSE IF ~ctx THEN Err("No model loaded")
    ELSE backend

transcribe(ctx, buffer, backend) ==
    IF ~ctx THEN Err("No model loaded")
    ELSE IF buffer = <<>> THEN Ok("")
    ELSE backend

BackendAnswers == {Err("Whisper"), Ok(""), Ok("text")}

\* a faulty variant: the text is injected whether it is empty or not
ToggleTranscribeInjectsEmpty(c) ==
    /\ pc[c] = "t_transcribe"
    /\ \E backend \in BackendAnswers :
         LET r == transcribe(context, local[c].buffer, backend) IN
         IF ~r.ok
         THEN /\ Goto(c, "t_reset")
              /\ local' = [local EXCEPT
                             ![c] = drop_buffer([local[c] EXCEPT !.ret = r])]
         ELSE /\ Goto(c, "t_inject")
              /\ local' = [local EXCEPT ![c].text = r.value]
    /\ emitted' = <<>>
    /\ UNCHANGED <<state, cmd_queue, reply, recording_start, threadVars, context,
                   toggle_in_progress, op, n_calls>>
    /\ UNCHANGED <<netVars, hostVars, ownerVars>>

\* self.transcriber.transcribe(&buffer, &config).await?; result.text.is_empty()
ToggleTranscribe(c) ==
    /\ pc[c] = "t_transcribe"
    /\ \E backend \in BackendAnswers :
         LET r == transcribe(context, local[c].buffer, backend) IN
         IF ~r.ok
         THEN /\ Goto(c, "t_reset")
              /\ local' = [local EXCEPT
                             ![c] = drop_buffer([local[c] EXCEPT !.ret = r])]
         ELSE IF r.value = ""
         THEN /\ Goto(c, "t_reset")
              /\ local' = [local EXCEPT
                             ![c] = drop_buffer([local[c] EXCEPT
                                        !.ret = Ok("Completed:None")])]
         ELSE /\ Goto(c, "t_inject")
              /\ local' = [local EXCEPT ![c].text = r.value]
    /\ emitted' = <<>>
    /\ UNCHANGED <<state, cmd_queue, reply, recording_start, threadVars, context,
                   toggle_in_progress, op, n_calls>>
    /\ UNCHANGED <<netVars, hostVars, ownerVars>>

\* a faulty variant: a failed inject_text puts the state back to Recording
ToggleInjectRollsBack(c) ==
    /\ pc[c] = "t_inject"
    /\ \E injected \in {Ok("done"), Err("Clipboard"), Err("InputSimulation")} :
         /\ local' = [local EXCEPT
                        ![c] = drop_buffer([local[c] EXCEPT
                                   !.ret = IF injected.ok
                                           THEN Ok("Completed:Some")
                                           ELSE injected])]
         /\ state' = IF injected.ok THEN state ELSE "Recording"
    /\ Goto(c, "t_reset")
    /\ emitted' = <<>>
    /\ UNCHANGED <<cmd_queue, reply, recording_start, threadVars, context,
                   toggle_in_progress, op, n_calls>>
    /\ UNCHANGED <<netVars, hostVars, ownerVars>>

\* output_manager.inject_text(&result.text).await?
ToggleInject(c) ==
    /\ pc[c] = "t_inject"
    /\ \E injected \in {Ok("done"), Err("Clipboard"), Err("InputSimulation")} :
         local' = [local EXCEPT
                     ![c] = drop_buffer([local[c] EXCEPT
                                !.ret = IF injected.ok
                                        THEN Ok("Completed:Some")
                                        ELSE injected])]
    /\ Goto(c, "t_reset")
    /\ emitted' = <<>>
    /\ UNCHANGED <<state, cmd_queue, reply, recording_start, threadVars, context,
                   toggle_in_progress, op, n_calls>>
    /\ UNCHANGED <<netVars, hostVars, ownerVars>>

ModelFiles == {"tiny.bin", "base.bin", "small.bin"}

NoModelFile == "none"

\* WhisperCppTranscriber::load_model (a model file that loads) / unload_model
LoadModel ==
    /\ ~context
    /\ context' = TRUE
    /\ context_model' = "small.bin"
    /\ emitted' = <<>>
    /\ returned' = NoReturn
    /\ UNCHANGED <<state, cmd_queue, reply, recording_start, threadVars,
                   toggle_in_progress, pc, op, local, n_calls>>
    /\ UNCHANGED <<host_devices, host_default, listed, hwVars, recVars,
                   tr_returned, selVars, cfgVars>>
    /\ UNCHANGED <<netVars, ownerVars>>

UnloadModel ==
    /\ context
    /\ context' = FALSE
    /\ context_model' = NoModelFile
    /\ emitted' = <<>>
    /\ returned' = NoReturn
    /\ UNCHANGED <<state, cmd_queue, reply, recording_start, threadVars,
                   toggle_in_progress, pc, op, local, n_calls>>
    /\ UNCHANGED <<host_devices, host_default, listed, hwVars, recVars,
                   tr_returned, selVars, cfgVars>>
    /\ UNCHANGED <<netVars, ownerVars>>

(***************************************************************************)
(* WhisperCppTranscriber, called directly: transcribe, load_model,          *)
(* unload_model, is_model_loaded.  Each call reads or writes the context    *)
(* once, under its lock, and is one step.                                   *)
(***************************************************************************)
SampleRates == {8000, 16000, 44100, 48000}

\* an AudioBuffer: samples and sample_rate
AudioBuffers ==
    [samples : {[i \in 1..k |-> i] : k \in 0..MaxProduced},
     sample_rate : SampleRates]

NoAudio == [samples |-> <<>>, sample_rate |-> 0]

NoTr == [op |-> "none", audio |-> NoAudio, path |-> NoModelFile,
         ret |-> NoResult, duration_ms |-> "zero", inference |-> FALSE]

\* transcribe on a buffer of any rate: the context, then the rate, then the
\* samples
transcribe_audio(ctx, audio, backend) ==
    IF ~ctx THEN Err("No model loaded")
    ELSE IF audio.sample_rate # 16000 THEN Err("Expected 16kHz audio")
    ELSE transcribe(ctx, audio.samples, backend)

\* whether the call goes on to spawn_blocking and state.full
runs_inference(ctx, audio) ==
    ctx /\ audio.sample_rate = 16000 /\ audio.samples # <<>>

TrInit ==
    /\ context_model = NoModelFile
    /\ tr_returned = NoTr

TrUnchanged ==
    /\ UNCHANGED <<state, emitted, cmd_queue, reply, recording_start,
                   threadVars, toggle_in_progress, pc, op, local, returned,
                   n_calls>>
    /\ UNCHANGED <<host_devices, host_default, listed, hwVars, recVars,
                   selVars, cfgVars>>
    /\ UNCHANGED <<netVars, ownerVars>>

\* transcribe(audio, config): duration_ms is 0 for the empty buffer and the
\* time the inference took otherwise
Transcribe(audio) ==
    /\ \E backend \in BackendAnswers :
           tr_returned' =
               [op |-> "transcribe", audio |-> audio, path |-> NoModelFile,
                ret |-> transcribe_audio(context, audio, backend),
                duration_ms |-> IF runs_inference(context, audio)
                                THEN "elapsed" ELSE "zero",
                inference |-> runs_inference(context, audio)]
    /\ UNCHANGED <<context, context_model>>
    /\ TrUnchanged

\* a faulty variant: the context is taken out before the new one is loaded
load_model_takes_first(path) ==
    /\ \E exists \in BOOLEAN, loads \in BOOLEAN :
          IF ~exists
          THEN /\ tr_returned' = [NoTr EXCEPT !.op = "load_model",
                                              !.path = path,
                                              !.ret = Err("ModelNotFound")]
               /\ UNCHANGED <<context, context_model>>
          ELSE IF ~loads
          THEN /\ tr_returned' = [NoTr EXCEPT !.op = "load_model",
                                              !.path = path,
                                              !.ret = Err("Whisper")]
               /\ context' = FALSE
               /\ context_model' = NoModelFile
          ELSE /\ tr_returned' = [NoTr EXCEPT !.op = "load_model",
                                              !.path = path,
                                              !.ret = Ok("unit")]
               /\ context' = TRUE
               /\ context_model' = path
    /\ TrUnchanged

\* load_model(path): path.exists(), WhisperContext::new_with_params, then
\* *self.context.write() = Some(..)
load_model(path) ==
    /\ \E exists \in BOOLEAN, loads \in BOOLEAN :
          IF ~exists
          THEN /\ tr_returned' = [NoTr EXCEPT !.op = "load_model",
                                              !.path = path,
                                              !.ret = Err("ModelNotFound")]
               /\ UNCHANGED <<context, context_model>>
          ELSE IF ~loads
          THEN /\ tr_returned' = [NoTr EXCEPT !.op = "load_model",
                                              !.path = path,
                                              !.ret = Err("Whisper")]
               /\ UNCHANGED <<context, context_model>>
          ELSE /\ tr_returned' = [NoTr EXCEPT !.op = "load_model",
                                              !.path = path,
                                              !.ret = Ok("unit")]
               /\ context' = TRUE
               /\ context_model' = path
    /\ TrUnchanged

\* unload_model(): *self.context.write() = None
unload_model ==
    /\ tr_returned' = [NoTr EXCEPT !.op = "unload_model", !.ret = Ok("unit")]
    /\ context' = FALSE
    /\ context_model' = NoModelFile
    /\ TrUnchanged

\* is_model_loaded(): self.context.read().is_some()
is_model_loaded ==
    /\ tr_returned' = [NoTr EXCEPT !.op = "is_model_loaded",
                                   !.ret = Ok(IF context THEN "true"
                                              ELSE "false")]
    /\ UNCHANGED <<context, context_model>>
    /\ TrUnchanged

(***************************************************************************)
(* CpalAudioManager::recover                                                *)
(***************************************************************************)
RecoverLoad(c) ==
    /\ Begin(c)
    /\ IF can_recover(state)
       THEN /\ Goto(c, "r_store")
            /\ op' = [op EXCEPT ![c] = "recover"]
            /\ local' = [local EXCEPT ![c].current = state]
       ELSE Return(c, "recover", [ok |-> FALSE, error |-> "AudioStateTransition",
                                  from |-> state, to |-> "Recovering"])
    /\ emitted' = <<>>
    /\ UNCHANGED <<state, cmd_queue, reply, recording_start, threadVars, context,
                   toggle_in_progress>>
    /\ UNCHANGED <<netVars, hostVars, ownerVars>>

\* state.store(Recovering); send StateChanged; the loop starts at attempt 1
RecoverStore(c) ==
    /\ pc[c] = "r_store"
    /\ state' = "Recovering"
    /\ emitted' = <<StateChanged(local[c].current, "Recovering")>>
    /\ local' = [local EXCEPT ![c].attempt = 1]
    /\ Goto(c, "r_sleep")
    /\ UNCHANGED <<cmd_queue, reply, recording_start, threadVars, context,
                   toggle_in_progress, op, n_calls>>
    /\ UNCHANGED <<netVars, hostVars, ownerVars>>

\* a faulty variant: the delay grows by 500 ms a turn
delay_ms_linear(attempt) == 500 * attempt

\* let delay_ms = 500 * (1 << (attempt - 1)), a u64 that max_recovery_attempts
\* turns do not overflow
delay_ms(attempt) == 500 * 2^(attempt - 1)

\* tokio::time::sleep(from_millis(delay_ms)).await
RecoverSleep(c) ==
    /\ pc[c] = "r_sleep"
    /\ local' = [local EXCEPT ![c].waited = @ + delay_ms(local[c].attempt)]
    /\ Goto(c, "r_probe")
    /\ emitted' = <<>>
    /\ UNCHANGED <<state, cmd_queue, reply, recording_start, threadVars, context,
                   toggle_in_progress, op, n_calls>>
    /\ UNCHANGED <<netVars, hostVars, ownerVars>>

\* a faulty variant: exhaustion returns the error with the state left Recovering
RecoverProbeStuck(c) ==
    /\ pc[c] = "r_probe"
    /\ \E device_ok \in BOOLEAN :
         IF device_ok
         THEN /\ state' = "Idle"
              /\ emitted' = <<RecoverySuccess, StateChanged("Recovering", "Idle")>>
              /\ Return(c, "recover", Ok("unit"))
         ELSE IF local[c].attempt < max_recovery_attempts
         THEN /\ local' = [local EXCEPT ![c].attempt = @ + 1,
                                        ![c].probes = @ + 1]
              /\ Goto(c, "r_sleep")
              /\ emitted' = <<>>
              /\ UNCHANGED <<state, op>>
         ELSE /\ UNCHANGED state
              /\ emitted' = <<RecoveryFailed(max_recovery_attempts)>>
              /\ Return(c, "recover", Err("AudioDevice"))
    /\ UNCHANGED <<cmd_queue, reply, recording_start, threadVars, context,
                   toggle_in_progress, n_calls>>
    /\ UNCHANGED <<netVars, hostVars, ownerVars>>

\* the rest of a turn of the loop: get_device(...) answers device_ok.
\* The store of Error follows the last failed probe with no shared access
\* between them.
RecoverProbe(c) ==
    /\ pc[c] = "r_probe"
    /\ \E device_ok \in BOOLEAN :
         IF device_ok
         THEN /\ state' = "Idle"
              /\ emitted' = <<RecoverySuccess, StateChanged("Recovering", "Idle")>>
              /\ Return(c, "recover", Ok("unit"))
         ELSE IF local[c].attempt < max_recovery_attempts
         THEN /\ local' = [local EXCEPT ![c].attempt = @ + 1,
                                        ![c].probes = @ + 1]
              /\ Goto(c, "r_sleep")
              /\ emitted' = <<>>
              /\ UNCHANGED <<state, op>>
         ELSE /\ state' = "Error"
              /\ emitted' = <<RecoveryFailed(max_recovery_attempts),
                              StateChanged("Recovering", "Error")>>
              /\ Return(c, "recover", Err("AudioDevice"))
    /\ UNCHANGED <<cmd_queue, reply, recording_start, threadVars, context,
                   toggle_in_progress, n_calls>>
    /\ UNCHANGED <<netVars, hostVars, ownerVars>>

(***************************************************************************)
(* audio_thread_main: the capture thread                                    *)
(***************************************************************************)
callerVars == <<recording_start, context, toggle_in_progress, pc, op, local,
                n_calls>>

Reply(c, r) == reply' = [reply EXCEPT ![c] = r]

\* a faulty variant: the newest command of the queue is taken, not the oldest
StartCheckNewest ==
    /\ audio_pc = "recv"
    /\ cmd_queue # <<>>
    /\ cmd_queue[Len(cmd_queue)].cmd = "Start"
    /\ cmd_queue' = SubSeq(cmd_queue, 1, Len(cmd_queue) - 1)
    /\ IF ~can_start_recording(state)
       THEN /\ Reply(cmd_queue[Len(cmd_queue)].caller, Err("AudioAlreadyRecording"))
            /\ UNCHANGED <<audio_pc, audio_cmd>>
       ELSE /\ audio_pc' = "start_open"
            /\ audio_cmd' = cmd_queue[Len(cmd_queue)].caller
            /\ UNCHANGED reply
    /\ emitted' = <<>>
    /\ returned' = NoReturn
    /\ UNCHANGED <<state, audio_from, stream, ring_consumer, ring, stop_samples,
                   errcb_pc, n_errors, n_produced, callerVars>>
    /\ UNCHANGED current_level
    /\ UNCHANGED <<netVars, hostVars, ownerVars>>

\* cmd_rx.blocking_recv() yields Start; the guard of the Start closure
StartCheck ==
    /\ audio_pc = "recv"
    /\ cmd_queue # <<>>
    /\ Head(cmd_queue).cmd = "Start"
    /\ cmd_queue' = Tail(cmd_queue)
    /\ IF ~can_start_recording(state)
       THEN /\ Reply(Head(cmd_queue).caller, Err("AudioAlreadyRecording"))
            /\ UNCHANGED <<audio_pc, audio_cmd>>
       ELSE /\ audio_pc' = "start_open"
            /\ audio_cmd' = Head(cmd_queue).caller
            /\ UNCHANGED reply
    /\ emitted' = <<>>
    /\ returned' = NoReturn
    /\ UNCHANGED <<state, audio_from, stream, ring_consumer, ring, stop_samples,
                   errcb_pc, n_errors, n_produced, callerVars>>
    /\ UNCHANGED current_level
    /\ UNCHANGED <<netVars, hostVars, ownerVars>>

\* a device of the host is known by its place in the enumeration; the
\* default device is the one default_input_device() answers with
DefaultDevice == [kind |-> "default", index |-> 0]

ListedDevice(i) == [kind |-> "listed", index |-> i]

NoDevice == [kind |-> "none", index |-> 0]

\* the places of the devices whose name() is Ok and equal to id
Named(devices, id) ==
    {i \in 1..Len(devices) : devices[i].name_ok /\ devices[i].name = id}

\* audio_processing::get_device: the first device whose name equals the
\* selected id, else the default device
get_device(selected, devices, default_name) ==
    IF selected.some /\ Named(devices, selected.name) # {}
    THEN Ok(ListedDevice(CHOOSE i \in Named(devices, selected.name) :
                \A j \in Named(devices, selected.name) : i <= j))
    ELSE IF default_name.some THEN Ok(DefaultDevice)
    ELSE Err("AudioDevice")

\* get_device, build_stream_config, HeapRb::new, build_stream, play, then
\* stream = Some(new_stream); ring_consumer = Some(consumer); from = state.load().
\* Replacing `stream` drops the previous Stream, which waits for a callback of
\* it that is running.  device_ok: the host enumerates, and the stream of the
\* device is configured, built and started.
StartOpen ==
    /\ audio_pc = "start_open"
    /\ \E device_ok \in BOOLEAN :
         LET device == get_device(selected_device_id, host_devices,
                                  host_default)
         IN IF device.ok /\ device_ok
            THEN /\ errcb_pc = "idle"
                 /\ stream' = TRUE
                 /\ ring_consumer' = TRUE
                 /\ ring' = <<>>
                 /\ audio_from' = state
                 /\ audio_pc' = "start_store"
                 /\ opened' = device.value
                 /\ UNCHANGED <<reply, audio_cmd>>
            ELSE /\ Reply(audio_cmd, Err("AudioDevice"))
                 /\ audio_pc' = "recv"
                 /\ audio_cmd' = NoCaller
                 /\ UNCHANGED <<stream, ring_consumer, ring, audio_from,
                                opened>>
    /\ emitted' = <<>>
    /\ returned' = NoReturn
    /\ UNCHANGED <<state, cmd_queue, stop_samples, errcb_pc, n_errors, n_produced,
                   callerVars>>
    /\ UNCHANGED current_level
    /\ UNCHANGED <<host_devices, host_default, listed, hwVars, recVars, trVars,
                   selected_device_id, sel_returned, cfgVars>>
    /\ UNCHANGED <<netVars, ownerVars>>

\* state.store(Recording); send StateChanged; reply.send(Ok(()))
StartStore ==
    /\ audio_pc = "start_store"
    /\ state' = "Recording"
    /\ emitted' = <<StateChanged(audio_from, "Recording")>>
    /\ returned' = NoReturn
    /\ Reply(audio_cmd, Ok("unit"))
    /\ audio_pc' = "recv"
    /\ audio_cmd' = NoCaller
    /\ audio_from' = "Idle"
    /\ UNCHANGED <<cmd_queue, stream, ring_consumer, ring, stop_samples,
                   errcb_pc, n_errors, n_produced, callerVars>>
    /\ UNCHANGED current_level
    /\ UNCHANGED <<netVars, hostVars, ownerVars>>

\* cmd_rx.blocking_recv() yields Stop; the guard of the Stop closure
StopCheck ==
    /\ audio_pc = "recv"
    /\ cmd_queue # <<>>
    /\ Head(cmd_queue).cmd = "Stop"
    /\ cmd_queue' = Tail(cmd_queue)
    /\ IF ~can_stop_recording(state)
       THEN /\ Reply(Head(cmd_queue).caller, Err("AudioNotRecording"))
            /\ UNCHANGED <<audio_pc, audio_cmd>>
       ELSE /\ audio_pc' = "stop_take"
            /\ audio_cmd' = Head(cmd_queue).caller
            /\ UNCHANGED reply
    /\ emitted' = <<>>
    /\ returned' = NoReturn
    /\ UNCHANGED <<state, audio_from, stream, ring_consumer, ring, stop_samples,
                   errcb_pc, n_errors, n_produced, callerVars>>
    /\ UNCHANGED current_level
    /\ UNCHANGED <<netVars, hostVars, ownerVars>>

\* stream.take() (the drop waits for a running callback); ring_consumer.take();
\* pop_slice of everything occupied; current_level.store(0); from = state.load()
StopTake ==
    /\ audio_pc = "stop_take"
    /\ errcb_pc = "idle"
    /\ stream' = FALSE
    /\ IF ring_consumer
       THEN /\ ring_consumer' = FALSE
            /\ stop_samples' = ring
            /\ ring' = <<>>
            /\ current_level' = 0
            /\ audio_from' = state
            /\ audio_pc' = "stop_store"
            /\ UNCHANGED <<reply, audio_cmd>>
       ELSE /\ Reply(audio_cmd, Err("AudioNotRecording"))
            /\ audio_pc' = "recv"
            /\ audio_cmd' = NoCaller
            /\ UNCHANGED <<ring_consumer, stop_samples, ring, audio_from,
                           current_level>>
    /\ emitted' = <<>>
    /\ returned' = NoReturn
    /\ UNCHANGED <<state, cmd_queue, errcb_pc, n_errors, n_produced, callerVars>>
    /\ UNCHANGED <<netVars, hostVars, ownerVars>>

\* state.store(Idle); send StateChanged; reply.send(Ok(samples))
StopStore ==
    /\ audio_pc = "stop_store"
    /\ state' = "Idle"
    /\ emitted' = <<StateChanged(audio_from, "Idle")>>
    /\ returned' = NoReturn
    /\ Reply(audio_cmd, Ok(stop_samples))
    /\ stop_samples' = <<>>
    /\ audio_pc' = "recv"
    /\ audio_cmd' = NoCaller
    /\ audio_from' = "Idle"
    /\ UNCHANGED <<cmd_queue, stream, ring_consumer, ring,
                   errcb_pc, n_errors, n_produced, callerVars>>
    /\ UNCHANGED current_level
    /\ UNCHANGED <<netVars, hostVars, ownerVars>>

(***************************************************************************)
(* Drop for CpalAudioManager and the Shutdown command.  drop takes the      *)
(* engine by &mut: no call on it is under way and none follows.  It runs    *)
(* on a thread that may block, which blocking_send requires.                *)
(***************************************************************************)
Shutdown == [cmd |-> "Shutdown", caller |-> NoCaller]

\* drop: cmd_tx.blocking_send(AudioCommand::Shutdown)
Drop ==
    /\ drop_pc = "alive"
    /\ \A c \in Callers : pc[c] = "idle"
    /\ cmd_queue' = Append(cmd_queue, Shutdown)
    /\ drop_pc' = "join"
    /\ emitted' = <<>>
    /\ returned' = NoReturn
    /\ UNCHANGED <<state, reply, threadVars, callerVars>>
    /\ UNCHANGED <<netVars, hostVars>>

\* a faulty variant: Shutdown is taken off the queue and the loop goes on
ShutdownRecvContinues ==
    /\ audio_pc = "recv"
    /\ cmd_queue # <<>>
    /\ Head(cmd_queue).cmd = "Shutdown"
    /\ cmd_queue' = Tail(cmd_queue)
    /\ emitted' = <<>>
    /\ returned' = NoReturn
    /\ UNCHANGED <<state, reply, threadVars, callerVars>>
    /\ UNCHANGED <<netVars, hostVars, ownerVars>>

\* cmd_rx.blocking_recv() yields Shutdown: break
ShutdownRecv ==
    /\ audio_pc = "recv"
    /\ cmd_queue # <<>>
    /\ Head(cmd_queue).cmd = "Shutdown"
    /\ cmd_queue' = Tail(cmd_queue)
    /\ audio_pc' = "shutdown"
    /\ emitted' = <<>>
    /\ returned' = NoReturn
    /\ UNCHANGED <<state, reply, audio_cmd, audio_from, stream, ring_consumer, ring,
                   stop_samples, errcb_pc, n_errors, n_produced, current_level,
                   callerVars>>
    /\ UNCHANGED <<netVars, hostVars, ownerVars>>

\* audio_thread_main returns: cmd_rx, ring_consumer and stream go out of scope
\* (the drop of a Stream waits for a callback of it that is running)
ThreadExit ==
    /\ audio_pc = "shutdown"
    /\ stream => errcb_pc = "idle"
    /\ cmd_queue' = <<>>
    /\ stream' = FALSE
    /\ ring_consumer' = FALSE
    /\ ring' = <<>>
    /\ audio_pc' = "exited"
    /\ emitted' = <<>>
    /\ returned' = NoReturn
    /\ UNCHANGED <<state, reply, audio_cmd, audio_from, stop_samples, errcb_pc,
                   n_errors, n_produced, current_level, callerVars>>
    /\ UNCHANGED <<netVars, hostVars, ownerVars>>

\* drop: thread_handle.lock().take(), handle.join()
DropJoin ==
    /\ drop_pc = "join"
    /\ audio_pc = "exited"
    /\ drop_pc' = "done"
    /\ emitted' = <<>>
    /\ returned' = NoReturn
    /\ UNCHANGED <<state, cmd_queue, reply, threadVars, callerVars>>
    /\ UNCHANGED <<netVars, hostVars>>

(***************************************************************************)
(* Callbacks of the native stream, run by the audio host's own thread       *)
(* while a Stream exists.                                                   *)
(***************************************************************************)
\* handle_stream_error: let current = state.load(); if current == Recording
ErrCallbackLoad ==
    /\ stream
    /\ errcb_pc = "idle"
    /\ n_errors < MaxDeviceErrors
    /\ n_errors' = n_errors + 1
    /\ errcb_pc' = IF state = "Recording" THEN "store" ELSE "idle"
    /\ emitted' = <<>>
    /\ returned' = NoReturn
    /\ UNCHANGED <<state, cmd_queue, reply, audio_pc, audio_cmd, audio_from, stream,
                   ring_consumer, ring, stop_samples, n_produced, callerVars>>
    /\ UNCHANGED current_level
    /\ UNCHANGED <<netVars, hostVars, ownerVars>>

\* handle_stream_error: state.store(DeviceLost); send DeviceLost
ErrCallbackStore ==
    /\ errcb_pc = "store"
    /\ state' = "DeviceLost"
    /\ emitted' = <<DeviceLostEvent>>
    /\ returned' = NoReturn
    /\ errcb_pc' = "idle"
    /\ UNCHANGED <<cmd_queue, reply, audio_pc, audio_cmd, audio_from, stream,
                   ring_consumer, ring, stop_samples, n_errors, n_produced,
                   callerVars>>
    /\ UNCHANGED current_level
    /\ UNCHANGED <<netVars, hostVars, ownerVars>>

\* calculate_rms of a block: 0 for silence, 1 for any level above 0
Levels == {0, 1}

\* a faulty variant: a full ring gives up its oldest sample for the new one
DataCallbackOverwrites ==
    /\ stream
    /\ n_produced < MaxProduced
    /\ n_produced' = n_produced + 1
    /\ ring' = IF Len(ring) < RingCapacity THEN Append(ring, n_produced + 1)
               ELSE Append(Tail(ring), n_produced + 1)
    /\ \E level \in Levels : current_level' = level
    /\ emitted' = <<>>
    /\ returned' = NoReturn
    /\ UNCHANGED <<state, cmd_queue, reply, audio_pc, audio_cmd, audio_from, stream,
                   ring_consumer, stop_samples, errcb_pc, n_errors, callerVars>>
    /\ UNCHANGED <<netVars, hostVars, ownerVars>>

\* process_samples_i16: producer.push_slice(&resampled) of one resampled sample
\* (a full ring takes nothing), then current_level.store(calculate_rms(..)),
\* samples_per_update being scaled down to one sample
DataCallback ==
    /\ stream
    /\ n_produced < MaxProduced
    /\ n_produced' = n_produced + 1
    /\ ring' = IF Len(ring) < RingCapacity THEN Append(ring, n_produced + 1) ELSE ring
    /\ \E level \in Levels : current_level' = level
    /\ emitted' = <<>>
    /\ returned' = NoReturn
    /\ UNCHANGED <<state, cmd_queue, reply, audio_pc, audio_cmd, audio_from, stream,
                   ring_consumer, stop_samples, errcb_pc, n_errors, callerVars>>
    /\ UNCHANGED <<netVars, hostVars, ownerVars>>

(***************************************************************************)
(* adapters/privacy_guard.rs: the URL gate.  Hosts and domains are strings, *)
(* modelled as sequences of characters; a URL is what Url::parse makes of   *)
(* it: unparseable, parsed without a host, or parsed with a host.           *)
(***************************************************************************)
Alphabet == {"a", "."}

StringsUpTo(n) == UNION {[1..k -> Alphabet] : k \in 0..n}

Hosts == StringsUpTo(MaxHostLen) \ {<<>>}

Domains == StringsUpTo(MaxDomainLen)

AllowLists == UNION {[1..k -> Domains] : k \in 0..MaxDomains}

Unparseable == [kind |-> "unparseable", host |-> <<>>]

NoHostUrl == [kind |-> "nohost", host |-> <<>>]

UrlOf(h) == [kind |-> "host", host |-> h]

Urls == {Unparseable, NoHostUrl} \cup {UrlOf(h) : h \in Hosts}

\* str::ends_with
ends_with(s, suffix) ==
    /\ Len(suffix) <= Len(s)
    /\ SubSeq(s, Len(s) - Len(suffix) + 1, Len(s)) = suffix

\* a faulty variant: the suffix is compared without the leading dot
host_matches_no_dot(host, d) == host = d \/ ends_with(host, d)

\* the closure of is_url_allowed's `any`
host_matches(host, d) == host = d \/ ends_with(host, <<".">> \o d)

is_url_allowed(lo, allowed, url) ==
    IF lo THEN Err("NetworkBlocked")
    ELSE IF url.kind = "unparseable" THEN Err("HttpRequest")
    ELSE IF url.kind = "nohost" THEN Err("HttpRequest")
    ELSE IF ~ \E i \in 1..Len(allowed) : host_matches(url.host, allowed[i])
         THEN Err("NetworkBlocked")
    ELSE Ok("unit")

(***************************************************************************)
(* The catalog, the models directory and the requests.                      *)
(***************************************************************************)
Requests == 1..NumRequests

\* an id that is no request's
NoRequest == NumRequests + 1

\* the (id, quantization) pairs of the embedded catalog
Variants == {"whisper-small-q5_1"}

\* an (id, quantization) the catalog does not have
UnknownModel == "whisper-none-q5_1"

\* the body the catalog's checksum was taken of, a body that differs in its
\* last chunk, and a body the server ends early
GoodBody == [i \in 1..NumChunks |-> "g"]

CorruptBody == [i \in 1..NumChunks |-> IF i = NumChunks THEN "x" ELSE "g"]

ShortBody == [i \in 1..(NumChunks - 1) |-> "g"]

ServerBodies == {GoodBody, CorruptBody, ShortBody}

\* LocalModelManager::calculate_sha256: a digest stands for the bytes it was
\* taken of (no collisions)
calculate_sha256(data) == [digest_of |-> data]

DefaultHost == <<"a">>

\* PrivacyConfig::default_allowed_domains, cut to one domain
default_allowed_domains == <<DefaultHost>>

\* the allow lists a configuration update may carry
PolicyLists == {default_allowed_domains, <<>>}

\* the enum Quantization
Quantizations == {"Q4_0", "Q5_0", "Q5_1", "Q8_0", "F16"}

\* the model id and the quantization that k names.  Ids and file names are
\* strings, modelled as sequences of atoms: "-" and pieces without a "-"
ModelKey(k) ==
    IF k \in Variants
    THEN [id |-> <<"whisper", "-", "small">>, quant |-> "Q5_1"]
    ELSE [id |-> <<"whisper", "-", "none">>, quant |-> "Q5_1"]

\* ModelCatalog::get + ModelInfo::variant; the files are served by a
\* subdomain of an allowlisted domain
catalog(v) ==
    [id |-> ModelKey(v).id, quantization |-> ModelKey(v).quant,
     url |-> UrlOf(<<"a", ".">> \o DefaultHost),
     sha256 |-> calculate_sha256(GoodBody)]

\* URLs of the plain requests: an allowlisted host, a host that only ends in
\* the letters of one, and a string that is no URL
RequestUrls == {UrlOf(DefaultHost), UrlOf(<<"a">> \o DefaultHost), Unparseable}

HttpKinds == {"get", "get_json", "post_json"}

Absent == [present |-> FALSE, data |-> <<>>]

File(data) == [present |-> TRUE, data |-> data]

get_model_path(v) == [stem |-> v, ext |-> "bin"]

\* Path::with_extension replaces the extension
with_extension(p, e) == [p EXCEPT !.ext = e]

temp_path(v) == with_extension(get_model_path(v), "download")

\* files of the models directory that no download has written: one without
\* a "-", one whose last piece is no quantization, one of an id the catalog
\* does not have, and one that spells the quantization in capitals
ForeignStems ==
    {"readme", "whisper-small", "whisper-none-q5_1", "whisper-small-Q5_1"}

ForeignPaths == [stem : ForeignStems, ext : {"bin"}]

Paths == [stem : Variants, ext : {"bin", "download"}] \cup ForeignPaths

NoPath == [stem |-> "", ext |-> ""]

InstalledModel(v, size) ==
    [id |-> catalog(v).id, quantization |-> catalog(v).quantization,
     path |-> get_model_path(v),
     sha256 |-> catalog(v).sha256, size_bytes |-> size]

NoOp == [kind |-> "none", url |-> Unparseable, variant |-> UnknownModel]

NoNetLocal == [body |-> <<>>, before |-> Absent,
               actual |-> calculate_sha256(<<>>), eff |-> {}, path |-> NoPath]

NoNetReturn == [req |-> NoRequest, op |-> "none", url |-> Unparseable,
                variant |-> UnknownModel, arg |-> <<>>, ret |-> NoResult,
                eff |-> {}]

\* PrivacyGuard::init with the default PrivacyConfig; LocalModelManager::new
\* over an empty models directory
NetInit ==
    /\ local_only = TRUE
    /\ allowed_domains = default_allowed_domains
    /\ disk = [p \in Paths |-> Absent]
    /\ installed = <<>>
    /\ net_pc = [r \in Requests |-> "idle"]
    /\ net_op = [r \in Requests |-> NoOp]
    /\ net_local = [r \in Requests |-> NoNetLocal]
    /\ net_returned = NoNetReturn

\* request r issues a new call
NetBegin(r) == net_pc[r] = "idle"

\* the call o of request r returns ret, having had the effects eff
NetReturn(r, o, ret, eff) ==
    /\ net_returned' = [req |-> r, op |-> o.kind, url |-> o.url,
                        variant |-> o.variant, arg |-> <<>>, ret |-> ret,
                        eff |-> eff]
    /\ net_pc' = [net_pc EXCEPT ![r] = "idle"]
    /\ net_op' = [net_op EXCEPT ![r] = NoOp]
    /\ net_local' = [net_local EXCEPT ![r] = NoNetLocal]

\* a step of request r that goes on to position `next`, with locals l
NetGoto(r, next, l) ==
    /\ net_returned' = NoNetReturn
    /\ net_pc' = [net_pc EXCEPT ![r] = next]
    /\ net_local' = [net_local EXCEPT ![r] = l]

\* the effects of request r so far, and e
Eff(r, e) == net_local[r].eff \cup e

WithEff(r, e) == [net_local[r] EXCEPT !.eff = Eff(r, e)]

(***************************************************************************)
(* PrivacyGuard: get, get_json, post_json, download_file.                   *)
(***************************************************************************)
\* a faulty variant: the request has left when the URL is rejected
CheckModeSendsFirst(r, o, before) ==
    IF local_only
    THEN /\ NetReturn(r, o, is_url_allowed(TRUE, allowed_domains, o.url), {"http"})
    ELSE /\ NetGoto(r, "check_domains", [NoNetLocal EXCEPT !.before = before])
         /\ net_op' = [net_op EXCEPT ![r] = o]

\* is_url_allowed up to its first return: local_only.load(SeqCst).  The call
\* o starts here: the check is its first statement.
CheckMode(r, o, before) ==
    IF local_only
    THEN /\ NetReturn(r, o, is_url_allowed(TRUE, allowed_domains, o.url), {})
    ELSE /\ NetGoto(r, "check_domains", [NoNetLocal EXCEPT !.before = before])
         /\ net_op' = [net_op EXCEPT ![r] = o]

\* get / get_json / post_json are called
HttpCall(r) ==
    /\ NetBegin(r)
    /\ \E kind \in HttpKinds, url \in RequestUrls :
          CheckMode(r, [kind |-> kind, url |-> url, variant |-> UnknownModel],
                    Absent)
    /\ UNCHANGED <<local_only, allowed_domains, disk, installed>>
    /\ UNCHANGED <<audioVars, hostVars, ownerVars>>

\* is_url_allowed from Url::parse on: the allow list is read here
CheckDomains(r) ==
    /\ net_pc[r] = "check_domains"
    /\ LET verdict == is_url_allowed(FALSE, allowed_domains, net_op[r].url) IN
       IF verdict.ok
       THEN /\ NetGoto(r, "send", net_local[r])
            /\ UNCHANGED net_op
       ELSE NetReturn(r, net_op[r], verdict, Eff(r, {}))
    /\ UNCHANGED <<local_only, allowed_domains, disk, installed>>
    /\ UNCHANGED <<audioVars, hostVars, ownerVars>>

\* self.client.get(url) / post(url) ... .send(): the request leaves
SendRequest(r) ==
    /\ net_pc[r] = "send"
    /\ NetGoto(r, "await", WithEff(r, {"http"}))
    /\ UNCHANGED <<local_only, allowed_domains, disk, installed, net_op>>
    /\ UNCHANGED <<audioVars, hostVars, ownerVars>>

\* get / get_json / post_json: the answer, its status and its body
HttpResponse(r) ==
    /\ net_pc[r] = "await"
    /\ net_op[r].kind \in HttpKinds
    /\ \E outcome \in {"send_error", "status", "body_error", "ok"} :
          NetReturn(r, net_op[r],
                    IF outcome = "ok" THEN Ok("body") ELSE Err("HttpRequest"),
                    Eff(r, {}))
    /\ UNCHANGED <<local_only, allowed_domains, disk, installed>>
    /\ UNCHANGED <<audioVars, hostVars, ownerVars>>

\* download_file: the answer and its status; the body is streamed later
DownloadResponse(r) ==
    /\ net_pc[r] = "await"
    /\ net_op[r].kind = "download"
    /\ \/ \E outcome \in {"send_error", "status"} :
             NetReturn(r, net_op[r], Err("HttpRequest"), Eff(r, {}))
       \/ \E body \in ServerBodies :
             /\ NetGoto(r, "create", [net_local[r] EXCEPT !.body = body])
             /\ UNCHANGED net_op
    /\ UNCHANGED <<local_only, allowed_domains, disk, installed>>
    /\ UNCHANGED <<audioVars, hostVars, ownerVars>>

\* a faulty variant: the temp file is left behind
cleanup_temp_forgotten(d, temp) == d

\* the closure cleanup_temp: remove_file(temp), its result dropped
cleanup_temp(d, temp) == [d EXCEPT ![temp] = Absent]

\* download_file: create_dir_all(parent), File::create(temp_path)
CreateTemp(r) ==
    /\ net_pc[r] = "create"
    /\ LET temp == temp_path(net_op[r].variant) IN
       \/ /\ NetReturn(r, net_op[r], Err("Io"), Eff(r, {"create_dir_all"}))
          /\ UNCHANGED disk
       \/ /\ NetReturn(r, net_op[r], Err("Io"),
                       Eff(r, {"create_dir_all", "create", "remove_temp"}))
          /\ disk' = cleanup_temp(disk, temp)
       \/ /\ NetGoto(r, "chunks", WithEff(r, {"create_dir_all", "create"}))
          /\ disk' = [disk EXCEPT ![temp] = File(<<>>)]
          /\ UNCHANGED net_op
    /\ UNCHANGED <<local_only, allowed_domains, installed>>
    /\ UNCHANGED <<audioVars, hostVars, ownerVars>>

\* download_file: one turn of the chunk loop
WriteChunk(r) ==
    /\ net_pc[r] = "chunks"
    /\ LET temp == temp_path(net_op[r].variant)
           n == Len(disk[temp].data) IN
       /\ n < Len(net_local[r].body)
       /\ \/ /\ NetReturn(r, net_op[r], Err("HttpRequest"),
                          Eff(r, {"remove_temp"}))
             /\ disk' = cleanup_temp(disk, temp)
          \/ /\ NetReturn(r, net_op[r], Err("Io"),
                          Eff(r, {"write", "remove_temp"}))
             /\ disk' = cleanup_temp(disk, temp)
          \/ /\ NetGoto(r, "chunks", WithEff(r, {"write"}))
             /\ disk' = [disk EXCEPT ![temp] =
                           File(Append(disk[temp].data, net_local[r].body[n + 1]))]
             /\ UNCHANGED net_op
    /\ UNCHANGED <<local_only, allowed_domains, installed>>
    /\ UNCHANGED <<audioVars, hostVars, ownerVars>>

\* download_file: the stream has ended; file.flush()
Flush(r) ==
    /\ net_pc[r] = "chunks"
    /\ LET temp == temp_path(net_op[r].variant) IN
       /\ Len(disk[temp].data) = Len(net_local[r].body)
       /\ \/ /\ NetReturn(r, net_op[r], Err("Io"), Eff(r, {"remove_temp"}))
             /\ disk' = cleanup_temp(disk, temp)
          \/ /\ NetGoto(r, "rename", net_local[r])
             /\ UNCHANGED <<disk, net_op>>
    /\ UNCHANGED <<local_only, allowed_domains, installed>>
    /\ UNCHANGED <<audioVars, hostVars, ownerVars>>

\* download_file: tokio::fs::rename(temp_path, path)
Rename(r) ==
    /\ net_pc[r] = "rename"
    /\ LET final == get_model_path(net_op[r].variant)
           temp == temp_path(net_op[r].variant) IN
       \/ /\ NetReturn(r, net_op[r], Err("Io"), Eff(r, {"rename", "remove_temp"}))
          /\ disk' = cleanup_temp(disk, temp)
       \/ /\ NetGoto(r, "hash", WithEff(r, {"rename"}))
          /\ disk' = [disk EXCEPT ![final] = disk[temp], ![temp] = Absent]
          /\ UNCHANGED net_op
    /\ UNCHANGED <<local_only, allowed_domains, installed>>
    /\ UNCHANGED <<audioVars, hostVars, ownerVars>>

(***************************************************************************)
(* LocalModelManager::download.  A variant is downloaded by one request at  *)
(* a time.                                                                  *)
(***************************************************************************)
\* a faulty variant: the guard is asked before the catalog
DownloadCallGuardFirst(r) ==
    /\ NetBegin(r)
    /\ Len(installed) < MaxInstalled
    /\ \E k \in Variants \cup {UnknownModel} :
          /\ \A r2 \in Requests \ {r} :
                ~(net_op[r2].kind = "download" /\ net_op[r2].variant = k)
          /\ IF k \notin Variants /\ ~local_only
             THEN NetReturn(r, [kind |-> "download", url |-> Unparseable,
                                variant |-> k],
                            Err("ModelNotFound"), {})
             ELSE CheckMode(r, [kind |-> "download", url |-> catalog(k).url,
                                variant |-> k],
                            disk[get_model_path(k)])
    /\ UNCHANGED <<local_only, allowed_domains, disk, installed>>
    /\ UNCHANGED <<audioVars, hostVars, ownerVars>>

\* download is called: the catalog lookup, then download_file up to the
\* first return of is_url_allowed
DownloadCall(r) ==
    /\ NetBegin(r)
    /\ Len(installed) < MaxInstalled
    /\ \E k \in Variants \cup {UnknownModel} :
          /\ \A r2 \in Requests \ {r} :
                ~(net_op[r2].kind = "download" /\ net_op[r2].variant = k)
          /\ IF k \notin Variants
             THEN NetReturn(r, [kind |-> "download", url |-> Unparseable,
                                variant |-> k],
                            Err("ModelNotFound"), {})
             ELSE CheckMode(r, [kind |-> "download", url |-> catalog(k).url,
                                variant |-> k],
                            disk[get_model_path(k)])
    /\ UNCHANGED <<local_only, allowed_domains, disk, installed>>
    /\ UNCHANGED <<audioVars, hostVars, ownerVars>>

\* download: calculate_sha256(&target_path)?
Hash(r) ==
    /\ net_pc[r] = "hash"
    /\ LET final == get_model_path(net_op[r].variant) IN
       \/ NetReturn(r, net_op[r], Err("Io"), Eff(r, {}))
       \/ /\ disk[final].present
          /\ NetGoto(r, "verify",
                     [net_local[r] EXCEPT
                        !.actual = calculate_sha256(disk[final].data)])
          /\ UNCHANGED net_op
    /\ UNCHANGED <<local_only, allowed_domains, disk, installed>>
    /\ UNCHANGED <<audioVars, hostVars, ownerVars>>

\* a faulty variant: every digest passes
digest_differs_never(actual, expected) == FALSE

\* download: actual_sha256 != variant.sha256
digest_differs(actual, expected) == actual # expected

\* download: the comparison; on a mismatch remove_file and ModelVerification,
\* else fs::metadata, push and Ok
Verify(r) ==
    /\ net_pc[r] = "verify"
    /\ LET v == net_op[r].variant
           final == get_model_path(v)
           entry == InstalledModel(v, Len(disk[final].data)) IN
       IF digest_differs(net_local[r].actual, catalog(v).sha256)
       THEN /\ disk' = [disk EXCEPT ![final] = Absent]
            /\ NetReturn(r, net_op[r],
                         [ok |-> FALSE, error |-> "ModelVerification",
                          expected |-> catalog(v).sha256,
                          actual |-> net_local[r].actual],
                         Eff(r, {"remove_final"}))
            /\ UNCHANGED installed
       ELSE \/ /\ NetReturn(r, net_op[r], Err("Io"), Eff(r, {}))
               /\ UNCHANGED <<disk, installed>>
            \/ /\ disk[final].present
               /\ installed' = Append(installed, entry)
               /\ NetReturn(r, net_op[r], Ok(entry), Eff(r, {}))
               /\ UNCHANGED disk
    /\ UNCHANGED <<local_only, allowed_domains>>
    /\ UNCHANGED <<audioVars, hostVars, ownerVars>>

(***************************************************************************)
(* LocalModelManager: file names, scan_installed, verify, delete.           *)
(***************************************************************************)
\* Quantization::suffix
suffix(q) ==
    CASE q = "Q4_0" -> "q4_0"
      [] q = "Q5_0" -> "q5_0"
      [] q = "Q5_1" -> "q5_1"
      [] q = "Q8_0" -> "q8_0"
      [] q = "F16" -> "f16"

\* str::to_lowercase of one atom: the atoms with capitals are the names of the
\* quantizations
to_lowercase(a) ==
    CASE a = "Q4_0" -> "q4_0"
      [] a = "Q5_0" -> "q5_0"
      [] a = "Q5_1" -> "q5_1"
      [] a = "Q8_0" -> "q8_0"
      [] a = "F16" -> "f16"
      [] OTHER -> a

NoQuant == [some |-> FALSE, quant |-> "none"]

\* Quantization::from_suffix
from_suffix(str) ==
    LET lower == [i \in 1..Len(str) |-> to_lowercase(str[i])]
        hits == {q \in Quantizations : lower = <<suffix(q)>>} IN
    IF hits = {} THEN NoQuant
    ELSE [some |-> TRUE, quant |-> CHOOSE q \in hits : TRUE]

\* format!("{}-{}", model_id, quant.suffix()): a file name without ".bin"
file_stem(model_id, quant) == model_id \o <<"-", suffix(quant)>>

\* the characters of a file's stem
Spelling(stem) ==
    CASE stem = "readme" -> <<"readme">>
      [] stem = "whisper-small" -> <<"whisper", "-", "small">>
      [] stem = "whisper-small-Q5_1" -> <<"whisper", "-", "small", "-", "Q5_1">>
      [] OTHER -> file_stem(ModelKey(stem).id, ModelKey(stem).quant)

\* path.file_name()
file_name(path) == Spelling(path.stem) \o <<IF path.ext = "bin" THEN ".bin"
                                                             ELSE ".download">>

\* a faulty variant: the position of the first "-"
rfind_first(stem) ==
    LET at == {i \in 1..Len(stem) : stem[i] = "-"} IN
    IF at = {} THEN 0 ELSE CHOOSE i \in at : \A j \in at : i <= j

\* stem.rfind('-'): the position of the last "-", 0 for None
rfind(stem) ==
    LET at == {i \in 1..Len(stem) : stem[i] = "-"} IN
    IF at = {} THEN 0 ELSE CHOOSE i \in at : \A j \in at : i >= j

NoModel == [some |-> FALSE]

\* parse_model_file of the file at `path`, of `size` bytes
parse_model_file(filename, path, size) ==
    IF filename = <<>> \/ filename[Len(filename)] # ".bin" THEN NoModel
    ELSE LET stem == SubSeq(filename, 1, Len(filename) - 1)
             last_hyphen == rfind(stem) IN
         IF last_hyphen = 0 THEN NoModel
         ELSE LET model_id == SubSeq(stem, 1, last_hyphen - 1)
                  quant == from_suffix(SubSeq(stem, last_hyphen + 1, Len(stem)))
                  variant == {v \in Variants :
                                 /\ catalog(v).id = model_id
                                 /\ catalog(v).quantization = quant.quant} IN
              IF ~quant.some \/ variant = {} THEN NoModel
              ELSE [some |-> TRUE,
                    model |-> [id |-> model_id, quantization |-> quant.quant,
                               path |-> path,
                               sha256 |-> catalog(CHOOSE v \in variant : TRUE).sha256,
                               size_bytes |-> size]]

\* what scan_installed makes of the file at path p
Scanned(d, p) == parse_model_file(file_name(p), p, Len(d[p].data))

\* the orders in which read_dir may yield the files of S
Orders(S) ==
    {o \in [1..Cardinality(S) -> S] : \A i, j \in 1..Cardinality(S) :
                                         o[i] = o[j] => i = j}

\* LocalModelManager::new over a models directory that exists and can be
\* read, in a process that starts: scan_installed
Rescan ==
    /\ \A r \in Requests : net_pc[r] = "idle"
    /\ LET found == {p \in Paths : disk[p].present /\ Scanned(disk, p).some} IN
       \E o \in Orders(found) :
          installed' = [i \in 1..Cardinality(found) |-> Scanned(disk, o[i]).model]
    /\ net_returned' = [NoNetReturn EXCEPT !.op = "scan"]
    /\ UNCHANGED <<local_only, allowed_domains, disk, net_pc, net_op, net_local>>
    /\ UNCHANGED <<audioVars, hostVars, ownerVars>>

\* the entries of the installed list for the (id, quantization) that k names
Entries(list, k) ==
    {i \in 1..Len(list) : /\ list[i].id = ModelKey(k).id
                          /\ list[i].quantization = ModelKey(k).quant}

\* LocalModelManager::model_path, where an entry matches: that of the first
model_path(list, k) ==
    list[CHOOSE i \in Entries(list, k) : \A j \in Entries(list, k) : i <= j].path

\* verify is called: model_path and the catalog lookups
VerifyCall(r) ==
    /\ NetBegin(r)
    /\ \E k \in Variants \cup {UnknownModel} :
          LET o == [kind |-> "verify", url |-> Unparseable, variant |-> k] IN
          IF Entries(installed, k) = {} \/ k \notin Variants
          THEN NetReturn(r, o, Err("ModelNotFound"), {})
          ELSE /\ NetGoto(r, "v_digest",
                          [NoNetLocal EXCEPT !.path = model_path(installed, k)])
               /\ net_op' = [net_op EXCEPT ![r] = o]
    /\ UNCHANGED <<local_only, allowed_domains, disk, installed>>
    /\ UNCHANGED <<audioVars, hostVars, ownerVars>>

\* a faulty variant: a file that is there verifies
VerifyDigestTrusts(r) ==
    /\ net_pc[r] = "v_digest"
    /\ \/ NetReturn(r, net_op[r], Err("Io"), Eff(r, {}))
       \/ /\ disk[net_local[r].path].present
          /\ NetReturn(r, net_op[r], Ok(TRUE), Eff(r, {}))
    /\ UNCHANGED <<local_only, allowed_domains, disk, installed>>
    /\ UNCHANGED <<audioVars, hostVars, ownerVars>>

\* verify: calculate_sha256(&path)? and the comparison
VerifyDigest(r) ==
    /\ net_pc[r] = "v_digest"
    /\ \/ NetReturn(r, net_op[r], Err("Io"), Eff(r, {}))
       \/ /\ disk[net_local[r].path].present
          /\ NetReturn(r, net_op[r],
                       Ok(calculate_sha256(disk[net_local[r].path].data)
                             = catalog(net_op[r].variant).sha256),
                       Eff(r, {}))
    /\ UNCHANGED <<local_only, allowed_domains, disk, installed>>
    /\ UNCHANGED <<audioVars, hostVars, ownerVars>>

\* delete is called: model_path
DeleteCall(r) ==
    /\ NetBegin(r)
    /\ \E k \in Variants \cup {UnknownModel} :
          LET o == [kind |-> "delete", url |-> Unparseable, variant |-> k] IN
          IF Entries(installed, k) = {}
          THEN NetReturn(r, o, Err("ModelNotFound"), {})
          ELSE /\ NetGoto(r, "d_remove",
                          [NoNetLocal EXCEPT !.path = model_path(installed, k)])
               /\ net_op' = [net_op EXCEPT ![r] = o]
    /\ UNCHANGED <<local_only, allowed_domains, disk, installed>>
    /\ UNCHANGED <<audioVars, hostVars, ownerVars>>

\* delete: fs::remove_file(&path)?
DeleteRemove(r) ==
    /\ net_pc[r] = "d_remove"
    /\ \/ /\ NetReturn(r, net_op[r], Err("Io"), Eff(r, {}))
          /\ UNCHANGED disk
       \/ /\ disk[net_local[r].path].present
          /\ disk' = [disk EXCEPT ![net_local[r].path] = Absent]
          /\ NetGoto(r, "d_retain", WithEff(r, {"remove_final"}))
          /\ UNCHANGED net_op
    /\ UNCHANGED <<local_only, allowed_domains, installed>>
    /\ UNCHANGED <<audioVars, hostVars, ownerVars>>

\* a faulty variant: only the first matching entry leaves the list
DeleteRetainFirst(r) ==
    /\ net_pc[r] = "d_retain"
    /\ LET hits == Entries(installed, net_op[r].variant)
           first == IF hits = {} THEN 0
                    ELSE CHOOSE i \in hits : \A j \in hits : i <= j IN
       installed' = [i \in 1..(Len(installed) - (IF first = 0 THEN 0 ELSE 1)) |->
                        IF first = 0 \/ i < first THEN installed[i]
                        ELSE installed[i + 1]]
    /\ NetReturn(r, net_op[r], Ok("unit"), Eff(r, {}))
    /\ UNCHANGED <<local_only, allowed_domains, disk>>
    /\ UNCHANGED <<audioVars, hostVars, ownerVars>>

\* delete: installed.retain(|m| !(m.id == model_id && m.quantization == quant))
DeleteRetain(r) ==
    /\ net_pc[r] = "d_retain"
    /\ LET hits == Entries(installed, net_op[r].variant)
           keep(m) == ~(/\ m.id = ModelKey(net_op[r].variant).id
                        /\ m.quantization = ModelKey(net_op[r].variant).quant) IN
       installed' = SelectSeq(installed, keep)
    /\ NetReturn(r, net_op[r], Ok("unit"), Eff(r, {}))
    /\ UNCHANGED <<local_only, allowed_domains, disk>>
    /\ UNCHANGED <<audioVars, hostVars, ownerVars>>

\* the environment: the bytes of an installed file change on the disk
CorruptFile ==
    /\ \E v \in Variants :
          /\ disk[get_model_path(v)] = File(GoodBody)
          /\ disk' = [disk EXCEPT ![get_model_path(v)] = File(CorruptBody)]
    /\ net_returned' = NoNetReturn
    /\ UNCHANGED <<local_only, allowed_domains, installed, net_pc, net_op,
                   net_local>>
    /\ UNCHANGED <<audioVars, hostVars, ownerVars>>

(***************************************************************************)
(* PrivacyGuard::set_local_only / set_allowed_domains                       *)
(***************************************************************************)
\* a faulty variant: the new mode is not stored
SetLocalOnlyIgnored(v) ==
    /\ net_returned' = [NoNetReturn EXCEPT !.op = "set_local_only", !.arg = v]
    /\ UNCHANGED <<local_only, allowed_domains, disk, installed, net_pc, net_op,
                   net_local>>
    /\ UNCHANGED <<audioVars, hostVars, ownerVars>>

\* local_only.swap(v, SeqCst)
SetLocalOnly(v) ==
    /\ local_only' = v
    /\ net_returned' = [NoNetReturn EXCEPT !.op = "set_local_only", !.arg = v]
    /\ UNCHANGED <<allowed_domains, disk, installed, net_pc, net_op,
                   net_local>>
    /\ UNCHANGED <<audioVars, hostVars, ownerVars>>

\* *self.allowed_domains.write() = domains
SetAllowedDomains(ds) ==
    /\ allowed_domains' = ds
    /\ net_returned' = [NoNetReturn EXCEPT !.op = "set_allowed_domains",
                                           !.arg = ds]
    /\ UNCHANGED <<local_only, disk, installed, net_pc, net_op, net_local>>
    /\ UNCHANGED <<audioVars, hostVars, ownerVars>>

\* is_url_allowed on its own, for every policy and every URL
CheckUrl(url) ==
    /\ net_returned' = [NoNetReturn EXCEPT
                          !.op = "is_url_allowed", !.url = url,
                          !.ret = is_url_allowed(local_only, allowed_domains, url)]
    /\ UNCHANGED <<local_only, allowed_domains, disk, installed, net_pc, net_op,
                   net_local>>
    /\ UNCHANGED <<audioVars, hostVars, ownerVars>>

(***************************************************************************)
(* AppController::update_config over TomlConfigStore::save.  Of AppConfig   *)
(* the privacy section is kept: it is what the guard is set from.           *)
(***************************************************************************)
\* the privacy sections a front-end may send
PrivacyConfigs == [local_only : BOOLEAN, allowed_domains : PolicyLists]

\* config.toml is missing, or was cut short by a write that failed
NoFile == [kind |-> "missing"]
Truncated == [kind |-> "truncated"]

\* toml::to_string_pretty of the configuration, as fs::write leaves it
Saved(cfg) == [kind |-> "toml", privacy |-> cfg]

NoConfig == [local_only |-> TRUE, allowed_domains |-> <<>>]

NoCfg == [called |-> FALSE, arg |-> NoConfig, ret |-> NoResult]

\* AppController::new: the configuration load() returned is held in memory,
\* is what config.toml says, and PrivacyGuard::init was called with its
\* privacy section
CfgInit ==
    /\ config = [local_only |-> local_only, allowed_domains |-> allowed_domains]
    /\ config_file = Saved(config)
    /\ cfg_pc = "idle"
    /\ cfg_local = NoConfig
    /\ cfg_returned = NoCfg

CfgUnchanged ==
    /\ UNCHANGED <<disk, installed, net_pc, net_op, net_local, net_returned>>
    /\ UNCHANGED <<host_devices, host_default, listed, hwVars, recVars, trVars,
                   selVars>>
    /\ UNCHANGED <<audioVars, ownerVars>>

\* update_config(config): guard.set_local_only(config.privacy.local_only)
UpdateConfigCall(cfg) ==
    /\ cfg_pc = "idle"
    /\ local_only' = cfg.local_only
    /\ cfg_local' = cfg
    /\ cfg_pc' = "set_domains"
    /\ cfg_returned' = NoCfg
    /\ UNCHANGED <<allowed_domains, config, config_file>>
    /\ CfgUnchanged

\* guard.set_allowed_domains(config.privacy.allowed_domains.clone())
UpdateSetDomains ==
    /\ cfg_pc = "set_domains"
    /\ allowed_domains' = cfg_local.allowed_domains
    /\ cfg_pc' = "save"
    /\ UNCHANGED <<local_only, config, config_file, cfg_local, cfg_returned>>
    /\ CfgUnchanged

\* self.config_store.save(&config)?: create_dir_all, to_string_pretty and
\* fs::write; create_dir_all fails with the file as it was, fs::write fails
\* with the file as it was or cut short.  An error returns from update_config.
UpdateSave ==
    /\ cfg_pc = "save"
    /\ \/ /\ config_file' = Saved(cfg_local)
          /\ cfg_pc' = "store"
          /\ UNCHANGED <<cfg_local, cfg_returned>>
       \/ /\ config_file' \in {config_file, Truncated}
          /\ cfg_pc' = "idle"
          /\ cfg_local' = NoConfig
          /\ cfg_returned' = [called |-> TRUE, arg |-> cfg_local, ret |-> Err("Io")]
    /\ UNCHANGED <<local_only, allowed_domains, config>>
    /\ CfgUnchanged

\* *self.config.write() = config; Ok(())
UpdateStore ==
    /\ cfg_pc = "store"
    /\ config' = cfg_local
    /\ cfg_pc' = "idle"
    /\ cfg_local' = NoConfig
    /\ cfg_returned' = [called |-> TRUE, arg |-> cfg_local, ret |-> Ok("unit")]
    /\ UNCHANGED <<local_only, allowed_domains, config_file>>
    /\ CfgUnchanged

ConfigNext ==
    \/ \E cfg \in PrivacyConfigs : UpdateConfigCall(cfg)
    \/ UpdateSetDomains
    \/ UpdateSave
    \/ UpdateStore

(***************************************************************************)
(* adapters/hardware_detector.rs: CpuHardwareDetector.  The threads that    *)
(* call it are numbered as the callers are.                                 *)
(***************************************************************************)
\* what detect_hardware may read: the logical processors the OS grants the
\* process at that moment
HardwareProfiles == {[threads |-> "four"], [threads |-> "eight"]}

NoProfile == [some |-> FALSE]

Cached(v) == [some |-> TRUE, value |-> v]

NoHwReturn == [caller |-> NoCaller, op |-> "none", ret |-> NoResult]

HwInit ==
    /\ profile = NoProfile
    /\ hw_pc = [c \in Callers |-> "idle"]
    /\ hw_op = [c \in Callers |-> "none"]
    /\ hw_local = [c \in Callers |-> NoProfile]
    /\ hw_returned = NoHwReturn

HwReturn(c, o, ret) ==
    /\ hw_returned' = [caller |-> c, op |-> o, ret |-> ret]
    /\ hw_pc' = [hw_pc EXCEPT ![c] = "idle"]
    /\ hw_op' = [hw_op EXCEPT ![c] = "none"]
    /\ hw_local' = [hw_local EXCEPT ![c] = NoProfile]

\* detect() or profile() is called: if let Some(profile) = self.profile.get()
HwCall(c, o) ==
    /\ hw_pc[c] = "idle"
    /\ IF profile.some
       THEN HwReturn(c, o, Ok(profile.value))
       ELSE /\ hw_pc' = [hw_pc EXCEPT ![c] = "h_detect"]
            /\ hw_op' = [hw_op EXCEPT ![c] = o]
            /\ hw_returned' = NoHwReturn
            /\ UNCHANGED hw_local
    /\ UNCHANGED <<profile, host_devices, host_default, listed, sideVars>>
    /\ UNCHANGED <<audioVars, netVars, ownerVars>>

\* Self::detect_hardware()?
HwDetect(c) ==
    /\ hw_pc[c] = "h_detect"
    /\ \/ HwReturn(c, hw_op[c], Err("Hardware"))
       \/ \E read \in HardwareProfiles :
             /\ hw_local' = [hw_local EXCEPT ![c] = Cached(read)]
             /\ hw_pc' = [hw_pc EXCEPT ![c] = "h_set"]
             /\ hw_returned' = NoHwReturn
             /\ UNCHANGED hw_op
    /\ UNCHANGED <<profile, host_devices, host_default, listed, sideVars>>
    /\ UNCHANGED <<audioVars, netVars, ownerVars>>

\* let _ = self.profile.set(..): a cell that is set keeps its value.  detect
\* returns Ok(profile), its local; profile returns self.profile.get()
HwSet(c) ==
    /\ hw_pc[c] = "h_set"
    /\ profile' = IF profile.some THEN profile ELSE hw_local[c]
    /\ IF hw_op[c] = "detect"
       THEN HwReturn(c, "detect", Ok(hw_local[c].value))
       ELSE HwReturn(c, "profile", Ok(profile'.value))
    /\ UNCHANGED <<host_devices, host_default, listed, sideVars>>
    /\ UNCHANGED <<audioVars, netVars, ownerVars>>

(***************************************************************************)
(* CpuHardwareDetector::recommend_model.  RAM is counted in units of 2^28   *)
(* bytes, four to the GiB; every size of the model is far below the 2^62    *)
(* bytes at which ram_gb's cast to u32 would truncate.                      *)
(***************************************************************************)
\* 1024 * 1024 * 1024 bytes, in units
GiB == 4

RamSizes == 0..(MaxRamGb * GiB + GiB - 1)

SimdCapabilities == [avx2 : BOOLEAN, neon : BOOLEAN]

\* detect_hardware answers with the machine's profile, or detect_ram fails
Unreadable == [ok |-> FALSE]

Machines == [ok : {TRUE}, ram_bytes : RamSizes, simd : SimdCapabilities]

RecIds == {"whisper-tiny", "whisper-base", "whisper-small"}

\* a ModelCatalog, as the set of the ids of its models
ModelCatalogs == SUBSET RecIds

NoRec == [called |-> FALSE]

ram_gb(p) == p.ram_bytes \div GiB

has_good_simd(simd) == simd.avx2 \/ simd.neon

\* the (model_id, quantization, reason) chosen for a profile
recommendation_small_from_seven(p) ==
    IF ram_gb(p) < 4
    THEN [model_id |-> "whisper-tiny", quantization |-> "Q5_1",
          reason |-> "limited"]
    ELSE IF ram_gb(p) < 7
    THEN [model_id |-> "whisper-base", quantization |-> "Q5_1",
          reason |-> "moderate"]
    ELSE IF has_good_simd(p.simd)
    THEN [model_id |-> "whisper-small", quantization |-> "Q5_1",
          reason |-> "good"]
    ELSE [model_id |-> "whisper-small", quantization |-> "Q5_1",
          reason |-> "plain"]

recommendation(p) ==
    IF ram_gb(p) < 4
    THEN [model_id |-> "whisper-tiny", quantization |-> "Q5_1",
          reason |-> "limited"]
    ELSE IF ram_gb(p) < 8
    THEN [model_id |-> "whisper-base", quantization |-> "Q5_1",
          reason |-> "moderate"]
    ELSE IF has_good_simd(p.simd)
    THEN [model_id |-> "whisper-small", quantization |-> "Q5_1",
          reason |-> "good"]
    ELSE [model_id |-> "whisper-small", quantization |-> "Q5_1",
          reason |-> "plain"]

\* recommend_model once self.profile() has answered with p
recommend_model(p, model_catalog) ==
    IF recommendation(p).model_id \notin model_catalog
    THEN Err("ModelNotFound")
    ELSE Ok(recommendation(p))

RecInit ==
    /\ hardware = Unreadable
    /\ rec_returned = NoRec

\* recommend_model(catalog): self.profile()? detects and fills the cell
\* when it is empty
RecommendModel(model_catalog) ==
    /\ \A c \in Callers : hw_pc[c] = "idle"
    /\ IF ~profile.some /\ ~hardware.ok
       THEN /\ rec_returned' = [called |-> TRUE, catalog |-> model_catalog,
                                ret |-> Err("Hardware")]
            /\ UNCHANGED profile
       ELSE /\ profile' = IF profile.some THEN profile ELSE Cached(hardware)
            /\ rec_returned' = [called |-> TRUE, catalog |-> model_catalog,
                                ret |-> recommend_model(profile'.value,
                                                        model_catalog)]
    /\ UNCHANGED <<hardware, hw_pc, hw_op, hw_local, hw_returned>>
    /\ UNCHANGED <<host_devices, host_default, listed, trVars, selVars, cfgVars>>
    /\ UNCHANGED <<audioVars, netVars, ownerVars>>

(***************************************************************************)
(* adapters/audio_cpal.rs: the list of input devices.  Device names are     *)
(* strings, modelled as sequences of characters.                            *)
(***************************************************************************)
DeviceNames == { <<"a">>, <<"a", ":", "1">>, <<"b">> }

\* a device of the host: device.name() answers Ok(name) or fails
HostDevices ==
    [name_ok : {TRUE}, name : DeviceNames] \cup {[name_ok |-> FALSE, name |-> <<>>]}

DeviceLists == UNION {[1..k -> HostDevices] : k \in 0..MaxDevices}

NoName == [some |-> FALSE, name |-> <<>>]

DefaultNames == [some : {TRUE}, name : DeviceNames] \cup {NoName}

NotListed == [called |-> FALSE, ok |-> FALSE, devices |-> <<>>]

Digit(d) == <<"0", "1", "2", "3", "4", "5", "6", "7", "8", "9">>[d + 1]

\* usize's Display: the decimal digits of n
RECURSIVE to_string(_)
to_string(n) ==
    IF n < 10 THEN <<Digit(n)>> ELSE to_string(n \div 10) \o <<Digit(n % 10)>>

\* format!("{}:{}", name, count)
format_id(name, count) == name \o <<":">> \o to_string(count)

\* the loop of list_devices_internal over the devices still to visit, with
\* name_counts (a missing key counts as 0) and the result so far
RECURSIVE list_loop(_, _, _, _)
list_loop(devices, default_name, name_counts, result) ==
    IF devices = <<>> THEN result
    ELSE LET device == Head(devices) IN
         IF ~device.name_ok
         THEN list_loop(Tail(devices), default_name, name_counts, result)
         ELSE LET name == device.name
                  count == name_counts[name]
                  id == IF count = 0 THEN name ELSE format_id(name, count)
              IN list_loop(Tail(devices), default_name,
                           [name_counts EXCEPT ![name] = count + 1],
                           Append(result,
                                  [id |-> id, name |-> name,
                                   is_default |-> default_name.some
                                                  /\ default_name.name = name]))

list_devices_internal(devices, default_name) ==
    list_loop(devices, default_name, [n \in DeviceNames |-> 0], <<>>)

NoSel == [called |-> FALSE, device_id |-> NoName, ret |-> NoResult]

\* CpalAudioManager::with_config: selected_device_id is None
SelInit ==
    /\ selected_device_id = NoName
    /\ opened = NoDevice
    /\ sel_returned = NoSel

\* a host with one input device, which is its default
OneDevice ==
    /\ host_devices = << [name_ok |-> TRUE, name |-> <<"a">>] >>
    /\ host_default = [some |-> TRUE, name |-> <<"a">>]
    /\ listed = NotListed

HostInit ==
    /\ OneDevice
    /\ SelInit
    /\ HwInit
    /\ RecInit
    /\ TrInit
    /\ CfgInit

\* list_input_devices(): Err(AudioDevice) when the host cannot enumerate
ListInputDevices ==
    /\ \E enumerates \in BOOLEAN :
           listed' = IF enumerates
                     THEN [called |-> TRUE, ok |-> TRUE,
                           devices |-> list_devices_internal(host_devices,
                                                             host_default)]
                     ELSE [called |-> TRUE, ok |-> FALSE, devices |-> <<>>]
    /\ UNCHANGED <<host_devices, host_default, hwVars, sideVars>>
    /\ UNCHANGED <<audioVars, netVars, ownerVars>>

\* the ids select_input_device is called with: the names, of which "a:1" is
\* also the id of a second "a", and the id of a second "b"
SelectIds == DeviceNames \cup {format_id(<<"b">>, 1)}

\* select_input_device(device_id): an id must be one of the listed ids; None
\* selects the default device
SelectInputDevice(device_id) ==
    /\ \E enumerates \in BOOLEAN :
         LET devices == list_devices_internal(host_devices, host_default)
             ret == IF ~device_id.some THEN Ok("unit")
                    ELSE IF ~enumerates THEN Err("AudioDevice")
                    ELSE IF \A i \in 1..Len(devices) :
                                devices[i].id # device_id.name
                    THEN Err("AudioDevice")
                    ELSE Ok("unit")
         IN /\ sel_returned' = [called |-> TRUE, device_id |-> device_id,
                                ret |-> ret]
            /\ selected_device_id' = IF ret.ok THEN device_id
                                     ELSE selected_device_id
    /\ UNCHANGED <<host_devices, host_default, listed, hwVars, recVars, trVars,
                   opened, cfgVars>>
    /\ UNCHANGED <<audioVars, netVars, ownerVars>>

(***************************************************************************)
(* The capture engine under the controller.                                 *)
(***************************************************************************)
Init == AudioInit /\ NetInit /\ HostInit

CallerStep(c) ==
    \/ ToggleEnter(c)
    \/ ToggleDispatch(c)
    \/ ToggleStartSend(c)
    \/ ToggleStopSend(c)
    \/ ToggleTranscribe(c)
    \/ ToggleInject(c)
    \/ ToggleReset(c)
    \/ CallStart(c)
    \/ StartReply(c)
    \/ CallStop(c)
    \/ StopReply(c)
    \/ RecoverLoad(c)
    \/ RecoverStore(c)
    \/ RecoverSleep(c)
    \/ RecoverProbe(c)

Next ==
    \/ \E c \in Callers : CallerStep(c)
    \/ StartCheck
    \/ StartOpen
    \/ StartStore
    \/ StopCheck
    \/ StopTake
    \/ StopStore
    \/ ErrCallbackLoad
    \/ ErrCallbackStore
    \/ DataCallback
    \/ LoadModel
    \/ UnloadModel

Spec == Init /\ [][Next]_vars

(***************************************************************************)
(* The capture engine after a device loss, with one recover call under way. *)
(* LostInit is the state Spec reaches by CallStart(1), StartCheck,          *)
(* StartOpen, StartStore, StartReply(1), ErrCallbackLoad, ErrCallbackStore, *)
(* RecoverLoad(1) (LostInitReached below); the budgets of calls and of      *)
(* device errors count from there.                                          *)
(***************************************************************************)
FirstCaller == CHOOSE c \in Callers : \A d \in Callers : c <= d

LostInit ==
    /\ state = "DeviceLost"
    /\ emitted = <<>>
    /\ cmd_queue = <<>>
    /\ reply = [c \in Callers |-> NoReply]
    /\ recording_start = TRUE
    /\ audio_pc = "recv"
    /\ audio_cmd = NoCaller
    /\ audio_from = "Idle"
    /\ stream = TRUE
    /\ ring_consumer = TRUE
    /\ ring = <<>>
    /\ stop_samples = <<>>
    /\ errcb_pc = "idle"
    /\ n_errors = 0
    /\ n_produced = 0
    /\ current_level = 0
    /\ context = FALSE
    /\ toggle_in_progress = FALSE
    /\ pc = [c \in Callers |-> IF c = FirstCaller THEN "r_store" ELSE "idle"]
    /\ op = [c \in Callers |-> IF c = FirstCaller THEN "recover" ELSE "none"]
    /\ local = [c \in Callers |->
                  IF c = FirstCaller
                  THEN [NoLocal EXCEPT !.current = "DeviceLost"]
                  ELSE NoLocal]
    /\ returned = NoReturn
    /\ n_calls = 0
    /\ drop_pc = "alive"
    /\ NetInit
    /\ OneDevice
    /\ HwInit
    /\ RecInit
    /\ TrInit
    /\ CfgInit
    /\ selected_device_id = NoName
    /\ opened = DefaultDevice
    /\ sel_returned = NoSel

\* the program state of LostInit, the budgets aside
LostInitReached ==
    /\ state = "DeviceLost"
    /\ cmd_queue = <<>>
    /\ reply = [c \in Callers |-> NoReply]
    /\ recording_start
    /\ audio_pc = "recv"
    /\ audio_cmd = NoCaller
    /\ audio_from = "Idle"
    /\ stream
    /\ ring_consumer
    /\ ring = <<>>
    /\ stop_samples = <<>>
    /\ errcb_pc = "idle"
    /\ current_level = 0
    /\ ~context
    /\ ~toggle_in_progress
    /\ opened = DefaultDevice
    /\ pc = [c \in Callers |-> IF c = FirstCaller THEN "r_store" ELSE "idle"]
    /\ op = [c \in Callers |-> IF c = FirstCaller THEN "recover" ELSE "none"]
    /\ local = [c \in Callers |->
                  IF c = FirstCaller
                  THEN [NoLocal EXCEPT !.current = "DeviceLost"]
                  ELSE NoLocal]

LostCallerStep(c) ==
    \/ CallStart(c)
    \/ StartReply(c)
    \/ RecoverLoad(c)
    \/ RecoverStore(c)
    \/ RecoverSleep(c)
    \/ RecoverProbe(c)

LostNext ==
    \/ \E c \in Callers : LostCallerStep(c)
    \/ StartCheck
    \/ StartOpen
    \/ StartStore
    \/ ErrCallbackLoad
    \/ ErrCallbackStore

SpecLost == LostInit /\ [][LostNext]_vars

\* recover is an async fn awaited by its command: once accepted, the runtime
\* polls it until it returns, and each sleep of its loop ends
SpecLostFair ==
    /\ SpecLost
    /\ \A c \in Callers :
         WF_vars(RecoverStore(c)) /\ WF_vars(RecoverSleep(c)) /\ WF_vars(RecoverProbe(c))

\* the toggle flow after a device loss, with one recover call under way and
\* no model loaded
LostToggleStep(c) ==
    \/ ToggleEnter(c)
    \/ ToggleDispatch(c)
    \/ ToggleStartSend(c)
    \/ ToggleStopSend(c)
    \/ ToggleTranscribe(c)
    \/ ToggleReset(c)
    \/ StartReply(c)
    \/ StopReply(c)
    \/ RecoverLoad(c)
    \/ RecoverStore(c)
    \/ RecoverSleep(c)
    \/ RecoverProbe(c)

LostToggleNext ==
    \/ \E c \in Callers : LostToggleStep(c)
    \/ StartCheck
    \/ StartOpen
    \/ StartStore
    \/ StopCheck
    \/ StopTake
    \/ StopStore
    \/ ErrCallbackLoad
    \/ ErrCallbackStore

SpecLostToggle == LostInit /\ [][LostToggleNext]_vars

(***************************************************************************)
(* The privacy guard and the model installer.                               *)
(***************************************************************************)
RequestStep(r) ==
    \/ HttpCall(r)
    \/ DownloadCall(r)
    \/ CheckDomains(r)
    \/ SendRequest(r)
    \/ HttpResponse(r)
    \/ DownloadResponse(r)
    \/ CreateTemp(r)
    \/ WriteChunk(r)
    \/ Flush(r)
    \/ Rename(r)
    \/ Hash(r)
    \/ Verify(r)

NetNext ==
    \/ \E r \in Requests : RequestStep(r)
    \/ \E v \in BOOLEAN : SetLocalOnly(v)
    \/ \E ds \in PolicyLists : SetAllowedDomains(ds)

SpecNet == Init /\ [][NetNext]_vars

(***************************************************************************)
(* The model installer over a models directory that may hold other files:   *)
(* download, verify, delete, and the scan of a process that starts.         *)
(***************************************************************************)
\* a foreign file has one byte
ForeignFile == File(<<"u">>)

\* the directory starts empty or with every foreign file
ModelsInit ==
    /\ AudioInit
    /\ local_only = TRUE
    /\ allowed_domains = default_allowed_domains
    /\ \E present \in {{}, ForeignPaths} :
          disk = [p \in Paths |-> IF p \in present THEN ForeignFile ELSE Absent]
    /\ installed = <<>>
    /\ net_pc = [r \in Requests |-> "idle"]
    /\ net_op = [r \in Requests |-> NoOp]
    /\ net_local = [r \in Requests |-> NoNetLocal]
    /\ net_returned = NoNetReturn
    /\ HostInit

ModelsStep(r) ==
    \/ DownloadCall(r)
    \/ CheckDomains(r)
    \/ SendRequest(r)
    \/ DownloadResponse(r)
    \/ CreateTemp(r)
    \/ WriteChunk(r)
    \/ Flush(r)
    \/ Rename(r)
    \/ Hash(r)
    \/ Verify(r)
    \/ VerifyCall(r)
    \/ VerifyDigest(r)
    \/ DeleteCall(r)
    \/ DeleteRemove(r)
    \/ DeleteRetain(r)

ModelsNext ==
    \/ \E r \in Requests : ModelsStep(r)
    \/ \E v \in BOOLEAN : SetLocalOnly(v)
    \/ Rescan
    \/ CorruptFile

SpecModels == ModelsInit /\ [][ModelsNext]_vars

(***************************************************************************)
(* The hardware detector under concurrent calls.                            *)
(***************************************************************************)
HwNext ==
    \E c \in Callers :
        \/ HwCall(c, "detect")
        \/ HwCall(c, "profile")
        \/ HwDetect(c)
        \/ HwSet(c)

SpecHw == Init /\ [][HwNext]_vars

(***************************************************************************)
(* The transcriber under any sequence of direct calls.                      *)
(***************************************************************************)
TranscriberNext ==
    \/ \E audio \in AudioBuffers : Transcribe(audio)
    \/ \E path \in ModelFiles : load_model(path)
    \/ unload_model
    \/ is_model_loaded

SpecTranscriber == Init /\ [][TranscriberNext]_vars

(***************************************************************************)
(* The recommendation as a function of the machine and the catalog.         *)
(***************************************************************************)
RecommendInit ==
    /\ AudioInit
    /\ NetInit
    /\ OneDevice
    /\ SelInit
    /\ HwInit
    /\ TrInit
    /\ CfgInit
    /\ hardware \in Machines \cup {Unreadable}
    /\ rec_returned = NoRec

RecommendNext == \E c \in ModelCatalogs : RecommendModel(c)

SpecRecommend == RecommendInit /\ [][RecommendNext]_vars

(***************************************************************************)
(* The URL gate as a function of the policy and the URL.                    *)
(***************************************************************************)
UrlInit ==
    /\ AudioInit
    /\ local_only \in BOOLEAN
    /\ allowed_domains \in AllowLists
    /\ disk = [p \in Paths |-> Absent]
    /\ installed = <<>>
    /\ net_pc = [r \in Requests |-> "idle"]
    /\ net_op = [r \in Requests |-> NoOp]
    /\ net_local = [r \in Requests |-> NoNetLocal]
    /\ net_returned = NoNetReturn
    /\ HostInit

UrlNext == \E url \in Urls : CheckUrl(url)

SpecUrl == UrlInit /\ [][UrlNext]_vars

(***************************************************************************)
(* The capture engine from construction to drop: start and stop calls, the  *)
(* capture thread, the callbacks and the owner that drops the engine.       *)
(***************************************************************************)
DropCallerStep(c) ==
    \/ CallStart(c)
    \/ StartReply(c)
    \/ CallStop(c)
    \/ StopReply(c)

DropNext ==
    \/ \E c \in Callers : DropCallerStep(c)
    \/ StartCheck
    \/ StartOpen
    \/ StartStore
    \/ StopCheck
    \/ StopTake
    \/ StopStore
    \/ ErrCallbackLoad
    \/ ErrCallbackStore
    \/ DataCallback
    \/ Drop
    \/ ShutdownRecv
    \/ ThreadExit
    \/ DropJoin

SpecDrop == Init /\ [][DropNext]_vars

\* the capture thread and drop are threads of their own and a callback that
\* has started runs to its end
SpecDropFair ==
    /\ SpecDrop
    /\ WF_vars(ShutdownRecv)
    /\ WF_vars(ThreadExit)
    /\ WF_vars(DropJoin)
    /\ WF_vars(ErrCallbackStore)

(***************************************************************************)
(* Configuration updates, from every privacy section a start may load.      *)
(***************************************************************************)
ConfigInit ==
    /\ AudioInit
    /\ local_only \in BOOLEAN
    /\ allowed_domains \in PolicyLists
    /\ disk = [p \in Paths |-> Absent]
    /\ installed = <<>>
    /\ net_pc = [r \in Requests |-> "idle"]
    /\ net_op = [r \in Requests |-> NoOp]
    /\ net_local = [r \in Requests |-> NoNetLocal]
    /\ net_returned = NoNetReturn
    /\ HostInit

SpecConfig == ConfigInit /\ [][ConfigNext]_vars

(***************************************************************************)
(* The device list as a function of what the host enumerates.               *)
(***************************************************************************)
DevInit ==
    /\ AudioInit
    /\ NetInit
    /\ HwInit
    /\ RecInit
    /\ TrInit
    /\ CfgInit
    /\ SelInit
    /\ host_devices \in DeviceLists
    /\ host_default \in DefaultNames
    /\ listed = NotListed

DevNext == ListInputDevices

SpecDev == DevInit /\ [][DevNext]_vars

(***************************************************************************)
(* Selecting an input device and starting on it, over the hosts whose       *)
(* devices answer name() and whose default device, when there is one, is    *)
(* one of the enumerated devices.                                           *)
(***************************************************************************)
SelectInit ==
    /\ AudioInit
    /\ NetInit
    /\ HwInit
    /\ RecInit
    /\ TrInit
    /\ CfgInit
    /\ SelInit
    /\ host_devices \in DeviceLists
    /\ \A i \in 1..Len(host_devices) : host_devices[i].name_ok
    /\ host_default \in DefaultNames
    /\ host_default.some => Named(host_devices, host_default.name) # {}
    /\ listed = NotListed

SelectNext ==
    \/ \E id \in SelectIds : SelectInputDevice([some |-> TRUE, name |-> id])
    \/ SelectInputDevice(NoName)
    \/ CallStart(FirstCaller)
    \/ StartReply(FirstCaller)
    \/ StartCheck
    \/ StartOpen
    \/ StartStore

SpecSelect == SelectInit /\ [][SelectNext]_vars

(***************************************************************************)
(* Properties of the capture engine and of the toggle flow.                 *)
(***************************************************************************)
\* the legal transitions of AudioState (domain/audio.rs, doc comment)
LegalEdges ==
    { <<"Idle", "Recording">>, <<"Recording", "Idle">>,
      <<"Recording", "DeviceLost">>, <<"DeviceLost", "Recovering">>,
      <<"Error", "Recovering">>, <<"Recovering", "Idle">>,
      <<"Recovering", "Error">> }

\* C1: every change of the shared audio state is one of the seven legal edges
\* (in particular never Recovering -> Recording), under every interleaving of
\* start, stop, recover and the device-error callback.
C1_EveryTransitionLegal ==
    [][state' # state => <<state, state'>> \in LegalEdges]_vars

\* caller c is inside toggle_recording, between the compare_exchange that
\* succeeded and the return
InToggle(c) == op[c] = "toggle"

\* this step is the arrival of a toggle_recording call of caller c
ToggleArrives(c) ==
    /\ pc[c] = "idle"
    /\ n_calls' = n_calls + 1
    /\ \/ op'[c] = "toggle"
       \/ returned'.caller = c /\ returned'.op = "toggle"

\* C2: a toggle_recording that arrives while another call is inside the toggle
\* returns "Toggle already in progress" at once and sends no command; one that
\* arrives while none is inside runs the body; two bodies never run together.
C2_ToggleReentry ==
    /\ [](Cardinality({c \in Callers : InToggle(c)}) <= 1)
    /\ [][\A c \in Callers :
            ToggleArrives(c) =>
              IF \E d \in Callers \ {c} : InToggle(d)
              THEN /\ returned' = [caller |-> c, op |-> "toggle",
                                   ret |-> Err("Toggle already in progress")]
                   /\ pc'[c] = "idle"
                   /\ ~InToggle(c)'
                   /\ cmd_queue' = cmd_queue
              ELSE InToggle(c)' /\ pc'[c] = "t_dispatch"]_vars

\* a second toggle has just been rejected while the first is inside the body
C2_Witness ==
    /\ returned.op = "toggle"
    /\ ~returned.ret.ok
    /\ returned.ret.error = "Toggle already in progress"
    /\ \E d \in Callers \ {returned.caller} : InToggle(d) /\ pc[d] = "start_wait"

\* C3: toggle_in_progress is false whenever no toggle_recording call is
\* running, whichever way the calls before ended.
C3_FlagResetOnEveryExit ==
    (\A c \in Callers : ~InToggle(c)) => ~toggle_in_progress

\* a toggle has just returned the error of a failed inject_text
C3_Witness ==
    /\ returned.op = "toggle"
    /\ ~returned.ret.ok
    /\ returned.ret.error = "Clipboard"
    /\ \A c \in Callers : ~InToggle(c)
    /\ ~toggle_in_progress

\* this step is the capture thread taking a Start command off the channel
HandlesStart ==
    /\ audio_pc = "recv"
    /\ cmd_queue # <<>>
    /\ Head(cmd_queue).cmd = "Start"
    /\ cmd_queue' = Tail(cmd_queue)

\* C10: a Start handled while the state is not Idle is answered with
\* AudioAlreadyRecording, leaves state, stream and ring as they are and emits
\* nothing; the facade passes the error on without setting recording_start.
C10_StartRejectedUnlessIdle ==
    [][/\ (HandlesStart /\ state # "Idle") =>
            /\ reply'[Head(cmd_queue).caller] = Err("AudioAlreadyRecording")
            /\ audio_pc' = "recv"
            /\ emitted' = <<>>
            /\ UNCHANGED <<state, stream, ring_consumer, ring>>
       /\ \A c \in Callers :
            (/\ pc[c] = "start_wait"
             /\ pc'[c] # "start_wait"
             /\ reply[c] = Err("AudioAlreadyRecording")) =>
               /\ UNCHANGED <<state, recording_start, stream, ring_consumer, ring>>
               /\ emitted' = <<>>
               /\ IF op[c] = "toggle"
                  THEN local'[c].ret = Err("AudioAlreadyRecording")
                  ELSE returned' = [caller |-> c, op |-> "start",
                                    ret |-> Err("AudioAlreadyRecording")]]_vars

\* a start_recording call has returned AudioAlreadyRecording after a device loss
C10_Witness ==
    /\ returned.op = "start"
    /\ ~returned.ret.ok
    /\ returned.ret.error = "AudioAlreadyRecording"
    /\ state = "DeviceLost"

\* this step is the Start handler failing on the device, the stream or play()
StartFails == audio_pc = "start_open" /\ audio_pc' = "recv"

\* C36: a Start that was accepted in Idle and fails while opening the device,
\* building the stream or starting it leaves the state Idle, emits nothing,
\* keeps no new stream or ring, and is answered with AudioDevice; the facade
\* passes the error on without setting recording_start; the capture thread
\* is then ready for the next Start, which the state Idle lets succeed.
C36_FailedStartKeepsIdle ==
    [][/\ StartFails =>
            /\ state' = "Idle"
            /\ emitted' = <<>>
            /\ UNCHANGED <<stream, ring_consumer, ring, recording_start>>
            /\ reply'[audio_cmd] = Err("AudioDevice")
       /\ \A c \in Callers :
            (/\ pc[c] = "start_wait"
             /\ pc'[c] # "start_wait"
             /\ reply[c] = Err("AudioDevice")) =>
               /\ UNCHANGED <<state, recording_start, stream, ring_consumer, ring>>
               /\ emitted' = <<>>
               /\ IF op[c] = "toggle"
                  THEN local'[c].ret = Err("AudioDevice")
                  ELSE returned' = [caller |-> c, op |-> "start",
                                    ret |-> Err("AudioDevice")]]_vars

\* C37: whenever the capture thread waits for a command and the state is
\* Idle, the thread holds no native input stream and no ring consumer, also
\* after a session that ended by device loss and recover.
C37_IdleHoldsNoStream ==
    (audio_pc = "recv" /\ state = "Idle") => (~stream /\ ~ring_consumer)

\* this step is the capture thread taking a Stop command off the channel
HandlesStop ==
    /\ audio_pc = "recv"
    /\ cmd_queue # <<>>
    /\ Head(cmd_queue).cmd = "Stop"
    /\ cmd_queue' = Tail(cmd_queue)

\* this step is handle_stream_error writing the state
ErrCallbackWrites == errcb_pc = "store" /\ errcb_pc' = "idle"

\* C11: a Stop handled while the state is not Recording is answered with
\* AudioNotRecording, takes no samples and leaves state, stream and ring as
\* they are; the facade passes the error on with no buffer; the device-error
\* callback that writes leaves the state DeviceLost and emits DeviceLost, so
\* that a Stop handled afterwards in that state is one of the rejected ones.
C11_StopRejectedUnlessRecording ==
    [][/\ (HandlesStop /\ state # "Recording") =>
            /\ reply'[Head(cmd_queue).caller] = Err("AudioNotRecording")
            /\ audio_pc' = "recv"
            /\ emitted' = <<>>
            /\ UNCHANGED <<state, stream, ring_consumer, ring, stop_samples>>
       /\ \A c \in Callers :
            (/\ pc[c] = "stop_wait"
             /\ pc'[c] # "stop_wait"
             /\ reply[c] = Err("AudioNotRecording")) =>
               /\ UNCHANGED <<state, recording_start, stream, ring_consumer, ring>>
               /\ emitted' = <<>>
               /\ IF op[c] = "toggle"
                  THEN local'[c].ret = Err("AudioNotRecording")
                       /\ local'[c].buffer = <<>>
                  ELSE returned' = [caller |-> c, op |-> "stop",
                                    ret |-> Err("AudioNotRecording")]
       /\ ErrCallbackWrites =>
            state' = "DeviceLost" /\ emitted' = <<DeviceLostEvent>>]_vars

\* a stop_recording call has returned AudioNotRecording after a device loss
\* during a recording
C11_Witness ==
    /\ returned.op = "stop"
    /\ ~returned.ret.ok
    /\ returned.ret.error = "AudioNotRecording"
    /\ state = "DeviceLost"
    /\ n_errors > 0

\* C12: handle_stream_error writes DeviceLost only over Recording: the
\* state it replaces is the state it checked, so DeviceLost never replaces
\* Idle, Recovering or Error, and the DeviceLost event is sent only for a
\* Recording -> DeviceLost change.
C12_ErrorCallbackAtomic ==
    [][/\ ErrCallbackWrites => state = "Recording"
       /\ (state' = "DeviceLost" /\ state # "DeviceLost") => state = "Recording"
       /\ (\E i \in 1..Len(emitted') : emitted'[i] = DeviceLostEvent) =>
              state = "Recording" /\ state' = "DeviceLost"]_vars

\* caller c is inside an accepted recover call
InRecover(c) == pc[c] \in {"r_store", "r_sleep", "r_probe"}

\* this step is a step of the recover call of caller c
RecoverSteps(c) == InRecover(c) /\ <<pc[c], local[c]>>' # <<pc[c], local[c]>>

\* this step is the return of the accepted recover call of caller c
RecoverReturns(c) == InRecover(c) /\ pc'[c] = "idle"

\* the guard's policy is the privacy section of the configuration in memory
GuardFollowsConfig ==
    /\ local_only = config.local_only
    /\ allowed_domains = config.allowed_domains

\* C40: after update_config returns, with Ok or with an error from saving,
\* the guard's local_only flag and allowed domains equal the privacy
\* section of the configuration that config() returns; a failed
\* update_config changes neither the guard's policy nor that configuration.
C40_GuardFollowsConfig ==
    /\ [](cfg_pc = "idle" => GuardFollowsConfig)
    /\ [][(cfg_returned'.called /\ ~cfg_returned'.ret.ok) => config' = config]_vars

\* no call of the model manager is running
ManagerIdle == \A r \in Requests : net_pc[r] = "idle"

\* C39: after any sequence of download, delete and verify calls, successful
\* or failed, the installed list holds at most one entry per (id, quant) and
\* every entry has its file '{id}-{quant}.bin' in the models directory; so
\* also after a second download of an installed model that ends in a
\* checksum mismatch.
C39_InstalledEntriesUniqueWithFile ==
    ManagerIdle =>
        /\ \A v \in Variants : Cardinality(Entries(installed, v)) <= 1
        /\ \A v \in Variants :
               \A i \in Entries(installed, v) : disk[installed[i].path].present

\* no step of a recover call writes over the state Recording
RecoverKeepsRecording ==
    [][\A c \in Callers :
         (RecoverSteps(c) /\ state = "Recording") => state' = "Recording"]_vars

\* C38: at most one recover call is past its check at a time (of two that
\* overlap, one is rejected with AudioStateTransition), so that a recover
\* finishing late never writes over a Recording state entered after an
\* earlier recover had made the state Idle.
C38_OneRecoveryAtATime ==
    /\ [](Cardinality({c \in Callers : InRecover(c)}) <= 1)
    /\ RecoverKeepsRecording

\* C13: an accepted recover stores Recovering and emits StateChanged from the
\* state it loaded; it then always returns, and does so in one of two ways:
\* Ok with the state Idle and RecoverySuccess, StateChanged{Recovering->Idle}
\* emitted in that order, or the AudioDevice error after max_recovery_attempts
\* failed probes with the state Error and RecoveryFailed{max_recovery_attempts},
\* StateChanged{Recovering->Error} emitted in that order.  No step of recover
\* stores Recording, opens a stream or sends a command to the capture thread.
C13_RecoverTerminates ==
    /\ [][\A c \in Callers :
            /\ (pc[c] = "r_store" /\ pc'[c] # "r_store") =>
                  /\ local[c].current \in {"DeviceLost", "Error"}
                  /\ state' = "Recovering"
                  /\ emitted' = <<StateChanged(local[c].current, "Recovering")>>
                  /\ pc'[c] = "r_sleep"
            /\ RecoverReturns(c) =>
                  /\ returned'.caller = c
                  /\ returned'.op = "recover"
                  /\ \/ /\ returned'.ret = Ok("unit")
                        /\ state' = "Idle"
                        /\ emitted' = <<RecoverySuccess,
                                        StateChanged("Recovering", "Idle")>>
                     \/ /\ returned'.ret = Err("AudioDevice")
                        /\ local[c].attempt = max_recovery_attempts
                        /\ state' = "Error"
                        /\ emitted' = <<RecoveryFailed(max_recovery_attempts),
                                        StateChanged("Recovering", "Error")>>
            /\ RecoverSteps(c) =>
                  /\ state' # "Recording" \/ state = "Recording"
                  /\ UNCHANGED <<stream, ring_consumer, cmd_queue>>]_vars
    /\ \A c \in Callers : InRecover(c) ~> ~InRecover(c)

\* a recover accepted from Error has stored Recovering and is at its last
\* probe, the earlier ones having failed
C13_Witness ==
    \E c \in Callers :
      /\ pc[c] = "r_probe"
      /\ local[c].current = "Error"
      /\ local[c].attempt = max_recovery_attempts
      /\ state = "Recovering"

\* this step is the arrival of a recover call of caller c
RecoverArrives(c) ==
    /\ pc[c] = "idle"
    /\ n_calls' = n_calls + 1
    /\ \/ op'[c] = "recover"
       \/ returned'.caller = c /\ returned'.op = "recover"

C15_RecoverBackoff ==
    [][\A c \in Callers :
         /\ (pc[c] = "r_sleep" /\ pc'[c] # "r_sleep") =>
               /\ local[c].attempt \in 1..max_recovery_attempts
               /\ local'[c].waited - local[c].waited =
                     500 * 2^(local[c].attempt - 1)
               /\ local[c].probes = local[c].attempt - 1
               /\ pc'[c] = "r_probe"
         /\ (pc[c] = "r_probe" /\ pc'[c] # "r_probe") =>
               /\ local[c].attempt \in 1..max_recovery_attempts
               /\ local[c].probes = local[c].attempt - 1
               /\ local[c].waited = 500 * (2^(local[c].attempt) - 1)
               /\ local[c].attempt = 2 => local[c].waited = 1500
               /\ IF returned'.caller = c /\ returned'.ret.ok
                  THEN pc'[c] = "idle" /\ state' = "Idle"
                  ELSE IF local[c].attempt < max_recovery_attempts
                  THEN /\ pc'[c] = "r_sleep"
                       /\ local'[c].attempt = local[c].attempt + 1
                       /\ local'[c].probes = local[c].attempt
                  ELSE pc'[c] = "idle" /\ state' = "Error"]_vars

\* a recovery is at its second probe, 500 + 1000 ms after it was accepted
C15_Witness ==
    \E c \in Callers :
      /\ pc[c] = "r_probe"
      /\ local[c].attempt = 2
      /\ local[c].probes = 1
      /\ local[c].waited = 1500

\* this step is toggle_recording_inner of caller c matching on the state
ToggleDispatches(c) == pc[c] = "t_dispatch" /\ pc'[c] # "t_dispatch"

\* this step is the return of the toggle_recording call of caller c
ToggleReturns(c) == InToggle(c) /\ ~InToggle(c)'

\* C16: reading Idle, the toggle sends Start; the Ok it then gets is the reply
\* of the step that stored Recording, and it returns Started, with the state
\* Recording when no device error and no other call came in between.  Reading
\* DeviceLost or Recovering it returns "Audio device unavailable", reading
\* Error "Audio is in error state"; in these cases no step of the toggle
\* sends a command or changes the audio state.
C16_ToggleDispatch ==
    [][\A c \in Callers :
         /\ ToggleDispatches(c) =>
               /\ UNCHANGED <<state, cmd_queue>>
               /\ CASE state = "Idle" -> pc'[c] = "start_send"
                    [] state = "Recording" -> pc'[c] = "stop_send"
                    [] state \in {"DeviceLost", "Recovering"} ->
                         /\ pc'[c] = "t_reset"
                         /\ local'[c].ret = Err("Audio device unavailable")
                    [] state = "Error" ->
                         /\ pc'[c] = "t_reset"
                         /\ local'[c].ret = Err("Audio is in error state")
         /\ (pc[c] = "start_send" /\ pc'[c] # "start_send") =>
               cmd_queue' = Append(cmd_queue, [cmd |-> "Start", caller |-> c])
         /\ (InToggle(c) /\ reply[c] = NoReply /\ reply'[c] = Ok("unit")) =>
               state' = "Recording"
         /\ (InToggle(c) /\ pc[c] = "start_wait" /\ pc'[c] # "start_wait") =>
               /\ pc'[c] = "t_reset"
               /\ local'[c].ret = IF reply[c].ok THEN Ok("Started") ELSE reply[c]
         /\ ToggleReturns(c) =>
               /\ returned' = [caller |-> c, op |-> "toggle", ret |-> local[c].ret]
               /\ UNCHANGED <<state, cmd_queue>>
               /\ (local[c].ret = Ok("Started") /\ n_errors = 0 /\ n_calls = 1) =>
                     state = "Recording"]_vars

\* a toggle has just returned the "recover first" error after an exhausted
\* recovery, with nothing sent to the capture thread
C16_Witness ==
    /\ returned.op = "toggle"
    /\ returned.ret = Err("Audio is in error state")
    /\ state = "Error"
    /\ cmd_queue = <<>>
    /\ audio_pc = "recv"

\* C17: in the Recording branch the toggle goes from the stop to transcribe,
\* from transcribe to inject_text or to the return, and from inject_text to
\* the return, never back.  It calls inject_text exactly when the transcribed
\* text is non-empty, and then once: empty text gives Completed{None} with no
\* inject_text call, injected text gives Completed{Some}.
C17_StopTranscribeInject ==
    [][\A c \in Callers :
         /\ (pc[c] = "stop_send" /\ pc'[c] # "stop_send") =>
               /\ pc'[c] = "stop_wait"
               /\ cmd_queue' = Append(cmd_queue, [cmd |-> "Stop", caller |-> c])
         /\ (InToggle(c) /\ pc[c] = "stop_wait" /\ pc'[c] # "stop_wait") =>
               IF reply[c].ok
               THEN pc'[c] = "t_transcribe" /\ local'[c].buffer = reply[c].value
               ELSE pc'[c] = "t_reset" /\ local'[c].ret = reply[c]
         /\ pc'[c] = "t_transcribe" => pc[c] \in {"stop_wait", "t_transcribe"}
         /\ pc'[c] = "t_inject" => pc[c] \in {"t_transcribe", "t_inject"}
         /\ (pc[c] = "t_transcribe" /\ pc'[c] # "t_transcribe") =>
               \/ /\ pc'[c] = "t_inject"
                  /\ local'[c].text # ""
               \/ /\ pc'[c] = "t_reset"
                  /\ local'[c].text = ""
                  /\ local'[c].ret = Ok("Completed:None") \/ ~local'[c].ret.ok
         /\ (pc[c] = "t_inject" /\ pc'[c] # "t_inject") =>
               /\ local[c].text # ""
               /\ pc'[c] = "t_reset"
               /\ local'[c].ret = Ok("Completed:Some") \/ ~local'[c].ret.ok
         /\ (pc'[c] = "t_reset" /\ local'[c].ret = Ok("Completed:Some")) =>
               pc[c] \in {"t_inject", "t_reset"}
         /\ (pc'[c] = "t_reset" /\ local'[c].ret = Ok("Completed:None")) =>
               pc[c] \in {"t_transcribe", "t_reset"}]_vars

\* a toggle has just returned Completed{Some} after stop, transcribe and inject
C17_Witness ==
    /\ returned.op = "toggle"
    /\ returned.ret = Ok("Completed:Some")
    /\ state = "Idle"
    /\ context

\* this step is the toggle of caller c leaving transcribe with no model loaded
TranscribesUnloaded(c) ==
    pc[c] = "t_transcribe" /\ pc'[c] # "t_transcribe" /\ ~context

\* the two toggles of scenarios A and B are the only calls made, and no
\* device error was reported
TwoTogglesOnly == n_calls = 2 /\ n_errors = 0

PostStopErrors ==
    {Err("No model loaded"), Err("Whisper"), Err("Clipboard"),
     Err("InputSimulation")}

\* C19: the Ok a toggle gets from its stop is the reply of the step that
\* stored Idle; a transcribe or inject_text that fails after it makes the
\* toggle return that error, and no step of the toggle from the failure to
\* the return changes the audio state or sends a command, so the state is
\* Idle at the return when nothing but the recording and this toggle ran.
C19_FailedToggleKeepsIdle ==
    [][\A c \in Callers :
         /\ (InToggle(c) /\ pc[c] = "stop_wait" /\ reply[c] = NoReply
              /\ reply'[c].ok) => state' = "Idle"
         /\ (pc[c] \in {"t_transcribe", "t_inject"} /\ pc'[c] = "t_reset"
              /\ ~local'[c].ret.ok) =>
               /\ local'[c].ret \in PostStopErrors
               /\ UNCHANGED <<state, cmd_queue>>
               /\ TwoTogglesOnly => state' = "Idle"
         /\ (ToggleReturns(c) /\ local[c].ret \in PostStopErrors) =>
               /\ returned' = [caller |-> c, op |-> "toggle", ret |-> local[c].ret]
               /\ UNCHANGED <<state, cmd_queue>>
               /\ TwoTogglesOnly => state' = "Idle"]_vars

\* a toggle has just returned the error of a failed paste, the state being
\* the Idle its stop left
C19_Witness ==
    /\ returned.op = "toggle"
    /\ returned.ret = Err("InputSimulation")
    /\ state = "Idle"
    /\ TwoTogglesOnly

\* v is a run of consecutively produced samples that stops at the capacity of
\* the ring or at the last sample produced
FirstProduced(v) ==
    /\ Len(v) <= RingCapacity
    /\ \A i \in 1..Len(v) : v[i] = v[1] + i - 1
    /\ (v # <<>> /\ Len(v) < RingCapacity) => v[Len(v)] = n_produced

\* C20: the ring of a stream starts empty; every sample the callback produces
\* is appended while the ring has room and dropped when it is full, the
\* samples in the ring staying as they are; nothing else adds to the ring;
\* stop takes the whole ring, in order, and the facade returns it: the first
\* min(n, capacity) of the n samples produced since the start.
C20_RingKeepsFirstSamples ==
    [][/\ (audio_pc = "start_open" /\ audio_pc' = "start_store") => ring' = <<>>
       /\ n_produced' # n_produced =>
             /\ n_produced' = n_produced + 1
             /\ ring' = IF Len(ring) < RingCapacity
                        THEN Append(ring, n_produced')
                        ELSE ring
       /\ (ring' # ring /\ n_produced' = n_produced) => ring' = <<>>
       /\ (audio_pc = "stop_take" /\ audio_pc' = "stop_store") =>
             stop_samples' = ring /\ FirstProduced(ring)
       /\ (audio_pc = "stop_store" /\ audio_pc' # "stop_store") =>
             /\ reply'[audio_cmd] = Ok(stop_samples)
             /\ FirstProduced(stop_samples)
       /\ \A c \in Callers :
            (pc[c] = "stop_wait" /\ pc'[c] # "stop_wait" /\ reply[c].ok) =>
              IF op[c] = "toggle"
              THEN local'[c].buffer = reply[c].value
              ELSE returned' = [caller |-> c, op |-> "stop", ret |-> reply[c]]]_vars

\* a stop has returned a full ring after more samples than it holds were
\* produced, with no device error
C20_Witness ==
    /\ returned.op = "stop"
    /\ returned.ret.ok
    /\ Len(returned.ret.value) = RingCapacity
    /\ returned.ret.value[1] = 1
    /\ n_produced > RingCapacity
    /\ n_errors = 0

\* no call is under way and the capture thread waits for a command
Quiescent ==
    /\ \A c \in Callers : pc[c] = "idle"
    /\ audio_pc = "recv"
    /\ cmd_queue = <<>>
    /\ errcb_pc = "idle"

\* C21: between calls, current_duration() is 0 whenever the state is not
\* Recording, however that state was reached.
C21_DurationZeroUnlessRecording ==
    (Quiescent /\ state # "Recording") => current_duration = "zero"

\* C22: between calls, current_level() is 0 whenever the state is not
\* Recording: no level outlives the recording it was measured in.
C22_LevelZeroUnlessRecording ==
    (Quiescent /\ state # "Recording") => current_level = 0

\* the capture thread is between two commands
ThreadWaits == audio_pc = "recv" /\ audio_cmd = NoCaller

\* this step takes a command off the channel
Dequeues == cmd_queue # <<>> /\ cmd_queue' = Tail(cmd_queue)

\* this step ends the handling of the command of caller c
Finishes(c) ==
    \/ audio_cmd = c /\ audio_pc' = "recv"
    \/ Dequeues /\ Head(cmd_queue).caller = c /\ audio_pc' = "recv"

\* C24: the capture thread handles Start, Stop and Shutdown one at a time and
\* in the order of their enqueueing, with exactly one reply for every Start
\* and Stop it handles; no start or stop call is left waiting when Shutdown
\* is handled.
C24_CommandsInOrderOneReply ==
    [][/\ \* the channel changes at its two ends only
          cmd_queue' # cmd_queue =>
              \/ \E cmd \in {"Start", "Stop"}, c \in Callers :
                     cmd_queue' = Append(cmd_queue, [cmd |-> cmd, caller |-> c])
              \/ cmd_queue' = Append(cmd_queue, Shutdown)
              \/ Dequeues
       /\ \* one at a time, the oldest first
          Dequeues =>
              /\ ThreadWaits
              /\ \/ audio_cmd' = Head(cmd_queue).caller /\ audio_pc' # "recv"
                 \/ Finishes(Head(cmd_queue).caller)
                 \/ Head(cmd_queue) = Shutdown /\ audio_pc' = "shutdown"
       /\ audio_cmd' # audio_cmd =>
              \/ Dequeues /\ audio_cmd' = Head(cmd_queue).caller
              \/ audio_cmd' = NoCaller /\ audio_pc' = "recv"
       /\ \* exactly one reply for every command handled
          \A c \in Callers :
              /\ Finishes(c) => reply[c] = NoReply /\ reply'[c] # NoReply
              /\ (reply'[c] # reply[c] /\ reply'[c] # NoReply) => Finishes(c)
       /\ \* Shutdown finds no call waiting
          audio_pc' \in {"shutdown", "exited"} =>
              /\ cmd_queue' = <<>>
              /\ \A c \in Callers : pc'[c] = "idle"
      ]_vars

\* a Start is being handled while a later command waits in the channel
C24_Witness ==
    /\ audio_pc = "start_store"
    /\ audio_cmd \in Callers
    /\ cmd_queue # <<>>
    /\ cmd_queue[1].caller # audio_cmd

\* C25: drop posts Shutdown; from then on the capture thread leaves its
\* loop and itself releases the stream and the ring, a recording in progress
\* or not, and the join of drop returns.
C25_DropTerminates ==
    /\ [][/\ (drop_pc = "alive" /\ drop_pc' = "join") =>
                cmd_queue' = Append(cmd_queue, Shutdown)
          /\ (drop_pc # "alive" /\ (stream \/ ring_consumer)
                 /\ ~stream' /\ ~ring_consumer') =>
                (audio_pc = "shutdown" /\ audio_pc' = "exited")
          /\ (drop_pc # "done" /\ drop_pc' = "done") =>
                (audio_pc = "exited" /\ ~stream /\ ~ring_consumer)
         ]_vars
    /\ (drop_pc = "join") ~>
           (drop_pc = "done" /\ audio_pc = "exited" /\ ~stream /\ ~ring_consumer)

\* the engine was dropped during a recording and the join has returned
C25_Witness ==
    /\ drop_pc = "done"
    /\ state = "Recording"
    /\ audio_pc = "exited"
    /\ ~stream

\* C26..C29 are properties of the installer over its models directory.
\* two installed entries agree in all but the path
SameModel(a, b) ==
    /\ a.id = b.id
    /\ a.quantization = b.quantization
    /\ a.sha256 = b.sha256
    /\ a.size_bytes = b.size_bytes

\* the name is a catalog id, a "-", the suffix of a quantization the catalog
\* has for that id (in small letters or in capitals), and ".bin"
Decomposes(name) ==
    \E v \in Variants :
        \E s \in {suffix(catalog(v).quantization), catalog(v).quantization} :
            name = catalog(v).id \o <<"-", s, ".bin">>

\* C26: the file a successful download leaves is one that a scan reads back
\* as the InstalledModel the download returned (same id, quantization,
\* sha256 and size_bytes, the id having a hyphen); a rescan keeps every entry
\* whose file is still there with its size, and lists exactly the files whose
\* names decompose at the last "-" into a catalog id and a quantization
\* suffix of that id.
C26_RescanFindsDownloads ==
    [][/\ (net_returned'.op = "download" /\ net_returned'.ret.ok) =>
             LET e == net_returned'.ret.value IN
             /\ Scanned(disk', e.path).some
             /\ SameModel(Scanned(disk', e.path).model, e)
             /\ Scanned(disk', e.path).model.path = e.path
       /\ net_returned'.op = "scan" =>
             /\ \A i \in 1..Len(installed) :
                    (/\ disk[installed[i].path].present
                     /\ Len(disk[installed[i].path].data) = installed[i].size_bytes)
                    => \E j \in 1..Len(installed') :
                          /\ SameModel(installed'[j], installed[i])
                          /\ installed'[j].path = installed[i].path
             /\ \A q \in Paths :
                    (disk[q].present /\ Decomposes(file_name(q)))
                    <=> (\E j \in 1..Len(installed') : installed'[j].path = q)
             /\ \A j \in 1..Len(installed') :
                    \E s \in {suffix(installed'[j].quantization),
                               installed'[j].quantization} :
                       file_name(installed'[j].path)
                          = installed'[j].id \o <<"-", s, ".bin">>
      ]_vars

\* a rescan of a directory with foreign files has found a downloaded model
C26_Witness ==
    /\ net_returned.op = "scan"
    /\ \E v \in Variants :
          /\ disk[get_model_path(v)] = File(GoodBody)
          /\ \E j \in 1..Len(installed) :
                 installed[j] = InstalledModel(v, Len(GoodBody))
    /\ \A q \in ForeignPaths : disk[q].present

\* C27: delete(id, quant) of an installed model removes the file of its
\* entry and returns Ok with no entry for (id, quant) left, the other
\* entries kept; when the file cannot be removed it fails with Io and the
\* list is as before; when (id, quant) is not installed it fails with
\* ModelNotFound and changes neither files nor list.
C27_DeleteRemovesFileAndEntry ==
    [][\A r \in Requests :
          LET k == net_returned'.variant
              mine(m) == /\ m.id = ModelKey(k).id
                         /\ m.quantization = ModelKey(k).quant
              other(m) == ~mine(m) IN
          /\ (net_pc[r] = "idle" /\ net_pc'[r] = "d_remove") =>
                /\ Entries(installed, net_op'[r].variant) # {}
                /\ \E i \in Entries(installed, net_op'[r].variant) :
                       net_local'[r].path = installed[i].path
                /\ disk' = disk /\ installed' = installed
          /\ (net_pc[r] = "d_remove" /\ net_pc'[r] = "d_retain") =>
                /\ disk[net_local[r].path].present
                /\ disk' = [disk EXCEPT ![net_local[r].path] = Absent]
                /\ installed' = installed
          /\ (net_returned'.req = r /\ net_returned'.op = "delete") =>
                \/ /\ net_returned'.ret = Ok("unit")
                   /\ net_pc[r] = "d_retain"
                   /\ "remove_final" \in net_returned'.eff
                   /\ \A i \in 1..Len(installed') : other(installed'[i])
                   /\ installed' = SelectSeq(installed, other)
                   /\ disk' = disk
                \/ /\ net_returned'.ret = Err("Io")
                   /\ net_pc[r] = "d_remove"
                   /\ installed' = installed
                   /\ disk' = disk
                \/ /\ net_returned'.ret = Err("ModelNotFound")
                   /\ net_pc[r] = "idle"
                   /\ \A i \in 1..Len(installed) : other(installed[i])
                   /\ installed' = installed
                   /\ disk' = disk
                   /\ net_returned'.eff = {}
      ]_vars

\* a delete has returned Ok and the model file is gone, the foreign files not
C27_Witness ==
    /\ net_returned.op = "delete"
    /\ net_returned.ret = Ok("unit")
    /\ "remove_final" \in net_returned.eff
    /\ \A v \in Variants : ~disk[get_model_path(v)].present
    /\ \A q \in ForeignPaths : disk[q].present

\* C28: verify(id, quant) returns true exactly when the digest of the file
\* of the installed entry, as it is when verify reads it, equals the catalog
\* sha256 (false once the file has been corrupted), and no step of verify
\* changes the installed list or any file, whatever it returns.
C28_VerifyComparesDigest ==
    [][\A r \in Requests :
          /\ (net_pc[r] = "idle" /\ net_pc'[r] = "v_digest") =>
                /\ \E i \in Entries(installed, net_op'[r].variant) :
                       net_local'[r].path = installed[i].path
                /\ disk' = disk /\ installed' = installed
          /\ (net_returned'.req = r /\ net_returned'.op = "verify") =>
                /\ disk' = disk
                /\ installed' = installed
                /\ net_returned'.eff = {}
                /\ \/ /\ net_returned'.ret \in {Ok(TRUE), Ok(FALSE)}
                      /\ net_pc[r] = "v_digest"
                      /\ disk[net_local[r].path].present
                      /\ net_returned'.ret.value
                            <=> (calculate_sha256(disk[net_local[r].path].data)
                                   = calculate_sha256(GoodBody))
                      /\ disk[net_local[r].path].data = CorruptBody
                            => net_returned'.ret = Ok(FALSE)
                   \/ /\ net_returned'.ret = Err("Io")
                      /\ net_pc[r] = "v_digest"
                   \/ /\ net_returned'.ret = Err("ModelNotFound")
                      /\ net_pc[r] = "idle"
                      /\ Entries(installed, net_returned'.variant) = {}
      ]_vars

\* verify has returned false for an installed file that was corrupted
C28_Witness ==
    /\ net_returned.op = "verify"
    /\ net_returned.ret = Ok(FALSE)
    /\ \E v \in Variants :
          /\ disk[get_model_path(v)] = File(CorruptBody)
          /\ installed # <<>>
          /\ installed[1].path = get_model_path(v)

\* this step is the call of download by request r
DownloadArrives(r) ==
    /\ net_pc[r] = "idle"
    /\ \/ net_op'[r].kind = "download"
       \/ net_returned'.req = r /\ net_returned'.op = "download"

\* C29: under local_only a download of a catalog model returns NetworkBlocked
\* from its call, with no request sent, no file created and the installed
\* list as before; a download of a model the catalog does not have returns
\* ModelNotFound from its call whatever the mode, the guard not being asked.
C29_DownloadBlockedLocalOnly ==
    [][\A r \in Requests :
          DownloadArrives(r) =>
             /\ disk' = disk
             /\ installed' = installed
             /\ (net_returned'.req = r /\ net_returned'.variant \notin Variants) =>
                    /\ net_returned'.ret = Err("ModelNotFound")
                    /\ net_returned'.eff = {}
             /\ (net_returned'.req # r) =>
                    /\ net_op'[r].variant \in Variants
                    /\ ~local_only
             /\ (local_only /\ (\/ net_returned'.req # r
                                 \/ net_returned'.variant \in Variants)) =>
                    /\ net_returned'.req = r
                    /\ net_returned'.ret = Err("NetworkBlocked")
                    /\ net_returned'.eff = {}
                    /\ net_pc'[r] = "idle"
      ]_vars

\* under local_only a download of a catalog model has been refused, the
\* model being installed from an earlier download
C29_Witness ==
    /\ local_only
    /\ net_returned.op = "download"
    /\ net_returned.variant \in Variants
    /\ net_returned.ret = Err("NetworkBlocked")
    /\ installed # <<>>
    /\ \A v \in Variants : ~disk[temp_path(v)].present

(***************************************************************************)
(* Properties of the device list.                                           *)
(***************************************************************************)
\* the number of devices named as the i-th one among the first i - 1 of ds
Earlier(ds, i) == Cardinality({j \in 1..(i - 1) : ds[j].name = ds[i].name})

\* the first device named N has id N and its k-th duplicate has id N:k
IdsFollowRule ==
    (listed.called /\ listed.ok) =>
        LET ds == listed.devices IN
        \A i \in 1..Len(ds) :
            ds[i].id = IF Earlier(ds, i) = 0 THEN ds[i].name
                       ELSE ds[i].name \o <<":">> \o to_string(Earlier(ds, i))

IdsPairwiseDistinct ==
    (listed.called /\ listed.ok) =>
        LET ds == listed.devices IN
        \A i, j \in 1..Len(ds) : i # j => ds[i].id # ds[j].id

\* C23: list_input_devices returns pairwise distinct ids for every sequence
\* of device names, the first device named N getting id N and its k-th
\* duplicate id N:k.
C23_DeviceIdsDistinct ==
    IdsFollowRule /\ IdsPairwiseDistinct

(***************************************************************************)
(* Properties of the hardware detector.                                     *)
(***************************************************************************)
\* C30: the cell is written once, by a detection that succeeded; a detect()
\* or profile() that returns Ok returns the value of the cell, also when it
\* lost the race to set it; a failed detection leaves the cell empty.
C30_MemoizedFirstCallWins ==
    [][/\ profile.some => profile' = profile
       /\ (~profile.some /\ profile'.some) =>
             \E c \in Callers : hw_pc[c] = "h_set" /\ profile' = hw_local[c]
       /\ \A c \in Callers :
             (hw_returned'.caller = c /\ hw_returned'.ret.ok) =>
                /\ profile'.some
                /\ hw_returned'.ret.value = profile'.value
       /\ \A c \in Callers :
             (hw_returned'.caller = c /\ ~hw_returned'.ret.ok) =>
                /\ hw_returned'.ret = Err("Hardware")
                /\ profile' = profile
      ]_vars

\* C34: after select_input_device(Some(id)) has succeeded for a listed id, a
\* successful start opens the device that is listed under that id (the k-th
\* device of a name is listed as "name:k", the first as "name"); after
\* select_input_device(None) it opens the default device.  A select that
\* succeeds stores its argument and one that fails stores nothing.  The
\* default device counts as the listed one when it has that device's name.
ListedUnder(id) ==
    {i \in 1..Len(host_devices) :
        /\ host_devices[i].name_ok
        /\ id = IF Earlier(host_devices, i) = 0 THEN host_devices[i].name
                ELSE format_id(host_devices[i].name, Earlier(host_devices, i))}

StartOpens == audio_pc = "start_open" /\ audio_pc' = "start_store"

C34_StartOpensSelected ==
    [][/\ sel_returned' # sel_returned =>
            selected_device_id' = IF sel_returned'.ret.ok
                                  THEN sel_returned'.device_id
                                  ELSE selected_device_id
       /\ (sel_returned' # sel_returned /\ sel_returned'.ret.ok
            /\ sel_returned'.device_id.some) =>
               ListedUnder(sel_returned'.device_id.name) # {}
       /\ StartOpens =>
            IF selected_device_id.some
            THEN \/ /\ opened'.kind = "listed"
                    /\ opened'.index \in ListedUnder(selected_device_id.name)
                 \/ /\ opened' = DefaultDevice
                    /\ \E i \in ListedUnder(selected_device_id.name) :
                           host_devices[i].name = host_default.name
            ELSE opened' = DefaultDevice]_vars

(***************************************************************************)
(* Properties of the transcriber and of the recommendation.                 *)
(***************************************************************************)
\* C35: is_model_loaded() is true exactly when the most recent successful
\* load_model has not been followed by an unload_model: a successful load
\* stores the context of its file, a load that fails (the path does not exist,
\* or the backend cannot load the file) leaves the context as it was,
\* unload_model empties it, transcribe and is_model_loaded leave it, and
\* is_model_loaded answers whether it holds a model; transcribe of a non-empty
\* buffer fails with "No model loaded" when it holds none.
TrCalls(o) == tr_returned' # tr_returned /\ tr_returned'.op = o

C35_LoadedIffLastLoadStands ==
    /\ [](context <=> context_model \in ModelFiles)
    /\ [][
         /\ TrCalls("load_model") =>
               IF tr_returned'.ret.ok
               THEN context' /\ context_model' = tr_returned'.path
               ELSE /\ tr_returned'.ret.error \in {"ModelNotFound", "Whisper"}
                    /\ UNCHANGED <<context, context_model>>
         /\ TrCalls("unload_model") => ~context'
         /\ TrCalls("transcribe") =>
               /\ UNCHANGED <<context, context_model>>
               /\ (~context /\ tr_returned'.audio.samples # <<>>) =>
                      tr_returned'.ret = Err("No model loaded")
         /\ TrCalls("is_model_loaded") =>
               /\ UNCHANGED <<context, context_model>>
               /\ tr_returned'.ret = Ok(IF context THEN "true" ELSE "false")
       ]_vars

\* with small.bin loaded, a load_model of another file has failed in the
\* backend and small.bin is still the model
C35_Witness ==
    /\ tr_returned.op = "load_model"
    /\ tr_returned.path = "base.bin"
    /\ tr_returned.ret = Err("Whisper")
    /\ context
    /\ context_model = "small.bin"

\* C33: the AudioBuffer a toggle obtains from stop is dropped, and its sample
\* storage overwritten with zeros, before the toggle returns, on the success
\* path and on the error paths (transcribe failure, inject failure): a call
\* owns a buffer only inside a toggle, the step that drops it leaves zeros in
\* all of its storage, and the step in which the toggle returns finds no
\* buffer owned.
C33_BufferZeroedBeforeReturn ==
    [][\A c \in Callers :
         /\ (~local[c].owns /\ local'[c].owns) =>
                /\ InToggle(c)
                /\ reply[c].ok
                /\ local'[c].buffer = reply[c].value
         /\ (local[c].owns /\ ~local'[c].owns) =>
                /\ InToggle(c)'
                /\ local'[c].buffer = <<>>
                /\ Len(local'[c].freed) = Len(local[c].buffer)
                /\ \A i \in 1..Len(local'[c].freed) : local'[c].freed[i] = 0
         /\ ToggleReturns(c) => ~local[c].owns /\ local[c].buffer = <<>>
         /\ ~InToggle(c)' => ~local'[c].owns]_vars

\* a toggle whose injection has failed is about to return; the two samples of
\* its buffer have been zeroed
C33_Witness ==
    \E c \in Callers :
        /\ pc[c] = "t_reset"
        /\ local[c].text = "text"
        /\ ~local[c].ret.ok
        /\ ~local[c].owns
        /\ local[c].freed = <<0, 0>>

\* C32: transcribe of an empty 16 kHz buffer returns success with empty text
\* and duration_ms = 0 and does not run the inference, with a model loaded or
\* without.
C32_EmptyInputIsSuccess ==
    (/\ tr_returned.op = "transcribe"
     /\ tr_returned.audio.samples = <<>>
     /\ tr_returned.audio.sample_rate = 16000) =>
        /\ tr_returned.ret = Ok("")
        /\ tr_returned.duration_ms = "zero"
        /\ ~tr_returned.inference

\* C31: recommend_model answers, for a machine with ram_gb = floor(ram_bytes
\* / 2^30), with the tiny model below 4 GiB, the base model from 4 to 7 GiB
\* and the small model from 8 GiB on, whatever the SIMD capability, always
\* with quantization q5_1, and fails with ModelNotFound when the chosen id is
\* not in the catalog.
Chosen(gb) ==
    IF gb < 4 THEN "whisper-tiny"
    ELSE IF gb <= 7 THEN "whisper-base" ELSE "whisper-small"

C31_RecommendByRam ==
    (rec_returned.called /\ hardware.ok) =>
        \E gb \in 0..MaxRamGb :
            /\ gb * GiB <= hardware.ram_bytes
            /\ hardware.ram_bytes < (gb + 1) * GiB
            /\ IF Chosen(gb) \in rec_returned.catalog
               THEN /\ rec_returned.ret.ok
                    /\ rec_returned.ret.value.model_id = Chosen(gb)
                    /\ rec_returned.ret.value.quantization = "Q5_1"
               ELSE rec_returned.ret = Err("ModelNotFound")

\* a machine with 7 GiB and a fraction, without AVX2 or NEON, is recommended
\* the base model
C31_Witness ==
    /\ rec_returned.called
    /\ hardware.ok
    /\ hardware.ram_bytes = 7 * GiB + GiB - 1
    /\ ~has_good_simd(hardware.simd)
    /\ rec_returned.ret = Ok(recommendation(hardware))
    /\ rec_returned.ret.value.model_id = "whisper-base"

(***************************************************************************)
(* Properties of the privacy guard and of the model installer.              *)
(***************************************************************************)
\* h ends with "." followed by d
DotSuffix(h, d) ==
    \E k \in 1..Len(h) :
       /\ h[k] = "."
       /\ Len(h) - k = Len(d)
       /\ \A j \in 1..Len(d) : h[k + j] = d[j]

Allowlisted(h, ds) == \E i \in DOMAIN ds : h = ds[i] \/ DotSuffix(h, ds[i])

Blocked(ret) == ~ret.ok /\ ret.error = "NetworkBlocked"

\* C4: is_url_allowed rejects every URL with NetworkBlocked while local_only
\* is true, whatever the allow list holds; while local_only is false it
\* accepts a URL with host H if and only if H equals an allowlisted domain d
\* or H ends with "." followed by d, and rejects it with NetworkBlocked
\* otherwise.
C4_UrlGate ==
    net_returned.op = "is_url_allowed" =>
       /\ local_only => Blocked(net_returned.ret)
       /\ ~local_only /\ net_returned.url.kind = "host" =>
             IF Allowlisted(net_returned.url.host, allowed_domains)
             THEN net_returned.ret.ok
             ELSE Blocked(net_returned.ret)

\* a host is accepted as a subdomain of an allowlisted domain
C4_Witness ==
    /\ net_returned.op = "is_url_allowed"
    /\ ~local_only
    /\ net_returned.url.kind = "host"
    /\ net_returned.ret.ok
    /\ \A i \in DOMAIN allowed_domains : net_returned.url.host # allowed_domains[i]

\* positions of a call at which is_url_allowed has not returned Ok yet
GateSteps == {"idle", "check_domains"}

\* the effects request r has had after this step
EffAfter(r) ==
    IF net_returned'.req = r THEN net_returned'.eff ELSE net_local'[r].eff

RejectedByGate(r) ==
    /\ net_pc[r] \in GateSteps
    /\ net_returned'.req = r
    /\ ~net_returned'.ret.ok
    /\ net_returned'.ret.error \in {"NetworkBlocked", "HttpRequest"}

\* C5: for get, get_json, post_json and download_file the URL check is the
\* first step: a call has no effect before is_url_allowed has accepted its
\* URL, and when the URL is rejected no HTTP request has been sent and
\* nothing has been created or written on disk when the error is returned.
C5_CheckComesFirst ==
    [][\A r \in Requests :
          /\ net_pc[r] \in GateSteps => EffAfter(r) = {}
          /\ RejectedByGate(r) =>
                /\ net_returned'.eff = {}
                /\ disk' = disk
                /\ installed' = installed]_vars

\* a download is rejected by the allow list, the disk untouched
C5_Witness ==
    /\ net_returned.op = "download"
    /\ Blocked(net_returned.ret)
    /\ ~local_only
    /\ net_returned.eff = {}
    /\ \A p \in Paths : ~disk[p].present

\* request r starts a call in this step
CallStarts(r) ==
    /\ net_pc[r] = "idle"
    /\ net_pc'[r] # "idle" \/ net_returned'.req = r

\* C6: policy changes are live.  set_local_only(v) and set_allowed_domains(ds)
\* store their argument and nothing else changes the policy; a request that
\* starts is judged against the policy of that moment (under local_only
\* every request that reaches the guard is rejected with NetworkBlocked);
\* a request that has passed the check is neither touched by a change of
\* policy nor ever rejected with NetworkBlocked.
C6_PolicyChangesAreLive ==
    [][/\ net_returned'.op = "set_local_only" =>
             local_only' = net_returned'.arg
       /\ net_returned'.op = "set_allowed_domains" =>
             allowed_domains' = net_returned'.arg
       /\ local_only' # local_only => net_returned'.op = "set_local_only"
       /\ allowed_domains' # allowed_domains =>
             net_returned'.op = "set_allowed_domains"
       /\ \A r \in Requests :
             /\ CallStarts(r) /\ local_only =>
                   /\ net_returned'.req = r
                   /\ ~net_returned'.ret.ok
                   /\ net_returned'.ret.error \in {"NetworkBlocked", "ModelNotFound"}
             /\ CallStarts(r) /\ ~local_only =>
                   ~(net_returned'.req = r /\ Blocked(net_returned'.ret))
             /\ net_pc[r] = "check_domains" /\ net_pc'[r] # "check_domains" =>
                   (net_pc'[r] = "send" <=>
                       /\ net_op[r].url.kind = "host"
                       /\ Allowlisted(net_op[r].url.host, allowed_domains))
             /\ net_pc[r] \notin GateSteps =>
                   /\ ~(net_returned'.req = r /\ Blocked(net_returned'.ret))
                   /\ local_only' # local_only \/ allowed_domains' # allowed_domains =>
                         /\ net_pc'[r] = net_pc[r]
                         /\ net_local'[r] = net_local[r]]_vars

\* a request that passed the check returns Ok after local_only was set
C6_Witness ==
    /\ local_only
    /\ net_returned.op \in HttpKinds
    /\ net_returned.ret.ok

DownloadFileSteps ==
    {"idle", "check_domains", "send", "await", "create", "chunks", "rename"}

DownloadFileFails(r) ==
    /\ net_pc[r] \in DownloadFileSteps
    /\ net_returned'.req = r
    /\ net_returned'.op = "download"
    /\ ~net_returned'.ret.ok
    /\ net_returned'.ret.error # "ModelNotFound"

C8_FinalPathVerified ==
    \A v \in Variants :
       disk[get_model_path(v)].present =>
          calculate_sha256(disk[get_model_path(v)].data) = catalog(v).sha256

====
